---- MODULE Spec2Model ----
(***************************************************************************)
(* ISPMail userctl: the curses widget framework (Note, Confirm, Select,    *)
(* SingleInput, Info, Menu, MainApp), the workflows built on it and the    *)
(* session driver main(), modelled from src/ispmail_userctl.py.            *)
(*                                                                         *)
(* Text is a sequence of one-character strings.  A key is the name of a    *)
(* curses key code ("KEY_UP"), "NL" for ord('\n'), "BS" for ord('\b'),     *)
(* "ERR" for a getch() that returned no handled key, or a one-character    *)
(* string for a printable character.                                       *)
(***************************************************************************)
EXTENDS Integers, Sequences, FiniteSets, TLC

VARIABLES
    phase,        \* "running": the session's UI loop; "exited": the process
                  \* has ended; "widget", "menu": a leaf widget, a Menu run
                  \* on its own; "returned", "raised", "aborted": how that
                  \* run() ended; "quota text", "parsed", "ValueError",
                  \* "shown": parse_quota and format_quota on their own
    term,         \* the terminal's size [lines, cols]
    appChildren,  \* MainApp.children: the ids of the registered widgets
    rootMenu,     \* MainApp.main_menu
    subMenu,      \* the nested Menu whose run() is in progress, or NoMenu
    wfs,          \* the workflow callbacks in progress, outermost first
    leaf,         \* the leaf widget whose run() is reading keys, or NoLeaf
    dbRows,       \* the rows this session sees (staged changes included)
    dbCommitted,  \* the rows as of the last commit
    blockfile,    \* the blocklist file /etc/postfix/access
    exitStatus,   \* the process's exit status, -1 while it runs
    mainlog,      \* what main() did with the connection after the UI loop
    ev,           \* what the latest step did: value returned by a leaf run(),
                  \* callback invoked, collaborator calls made, how the UI
                  \* loop ended; the key read when a widget is run on its own
    keylog,       \* keys read so far by a SingleInput run on its own; the
                  \* text given to parse_quota when it is applied on its own
    profile       \* what the person at the keyboard does in this session

vars == <<phase, term, appChildren, rootMenu, subMenu, wfs, leaf, dbRows,
          dbCommitted, blockfile, exitStatus, mainlog, ev, keylog, profile>>

-----------------------------------------------------------------------------
(* Bounds of the model *)

\* longest key sequence delivered to a SingleInput that is run on its own
MaxKeys == 4

\* most genuine entries of a Select that is run on its own
MaxItems == 17

\* most newline characters in the text of an Info that is run on its own
MaxInfoLines == 18

\* most real items of a Menu that is run on its own
MaxMenuItems == 9

-----------------------------------------------------------------------------
(* Keys *)

EnterKeys == {"KEY_ENTER", "NL"}

QuitKeys == {"q", "Q"}

BackspaceKeys == {"KEY_BACKSPACE", "BS"}

Digits == {"1", "2", "3", "4", "5", "6", "7", "8", "9"}

\* the printable characters the model types
Letters == {"a", "@", "q", "Q"}

\* curses.ascii.isgraph(key): a printable, non-blank ASCII character
isgraph(key) == key \in Letters \cup Digits \cup {"0", "M", "B"}

\* every key a run loop is given
AllKeys == EnterKeys \cup QuitKeys \cup BackspaceKeys
           \cup {"KEY_UP", "KEY_DOWN", "KEY_NPAGE", "KEY_PPAGE"}
           \cup Digits \cup Letters \cup {"ERR"}

-----------------------------------------------------------------------------
(* Values returned by run() *)

None == [tag |-> "none"]

Str(s) == [tag |-> "str", val |-> s]

Obj(x) == [tag |-> "obj", val |-> x]

OPTA == [tag |-> "confirm", val |-> "OPTA"]

OPTB == [tag |-> "confirm", val |-> "OPTB"]

OPTNONE == [tag |-> "confirm", val |-> "OPTNONE"]

\* Python truth value of a returned value
Truthy(v) ==
    CASE v.tag = "none" -> FALSE
      [] v.tag = "str"  -> Len(v.val) > 0
      [] v.tag = "bool" -> v.val
      [] OTHER          -> TRUE

\* the outcome of one pass of a run loop: the widget afterwards, whether the
\* loop was left, and the value run() then returns
Going(w) == [w |-> w, done |-> FALSE, ret |-> None]

Leaving(w, v) == [w |-> w, done |-> TRUE, ret |-> v]

NoLeaf == [kind |-> "None"]

\* no run() returned in this step
Running == [tag |-> "running"]

-----------------------------------------------------------------------------
(* Text *)

\* ASCII codes of the characters the model uses
Ord(c) ==
    CASE c = " " -> 32 [] c = "," -> 44 [] c = "." -> 46
      [] c = "0" -> 48 [] c = "1" -> 49 [] c = "2" -> 50 [] c = "3" -> 51
      [] c = "4" -> 52 [] c = "5" -> 53 [] c = "6" -> 54 [] c = "7" -> 55
      [] c = "8" -> 56 [] c = "9" -> 57 [] c = "@" -> 64
      [] c = "B" -> 66 [] c = "G" -> 71 [] c = "K" -> 75 [] c = "M" -> 77
      [] c = "Q" -> 81 [] c = "X" -> 88
      [] c = "a" -> 97 [] c = "b" -> 98 [] c = "c" -> 99 [] c = "g" -> 103
      [] c = "k" -> 107 [] c = "m" -> 109 [] c = "q" -> 113 [] c = "x" -> 120

RECURSIVE TextLess(_, _)
\* a < b for Python strings
TextLess(a, b) ==
    IF b = <<>> THEN FALSE
    ELSE IF a = <<>> THEN TRUE
    ELSE IF Ord(Head(a)) # Ord(Head(b)) THEN Ord(Head(a)) < Ord(Head(b))
    ELSE TextLess(Tail(a), Tail(b))

\* s.find(c) != -1
Contains(s, c) == \E i \in 1..Len(s) : s[i] = c

At == <<"@">>

-----------------------------------------------------------------------------
(* The data-access collaborator: the rows visible to this session *)
(*                                                                         *)
(* A table is the set of its rows.  The database numbers rows as they are  *)
(* inserted; the model numbers only rows of equal content: identifier is a *)
(* row's number among the rows with the same columns.  Rows whose columns  *)
(* differ all have identifier 1, and two sessions that differ only in the  *)
(* numbers the database gave out are one state.  domain_id holds the row   *)
(* of the domain.                                                          *)

\* the number of a new row among the rows like it
NextId(like) ==
    CHOOSE i \in 1..(Cardinality(like) + 1) :
        /\ \A r \in like : r.identifier # i
        /\ \A j \in 1..(i - 1) : \E r \in like : r.identifier = j

\* the rows as the sequence that ORDER BY yields; before[a, b]: a comes
\* before b
SortRows(rows, before) ==
    [i \in 1..Cardinality(rows) |->
        CHOOSE r \in rows : Cardinality({o \in rows : before[o, r]}) = i - 1]

DomainBefore(a, b) ==
    \/ TextLess(a.name, b.name)
    \/ a.name = b.name /\ a.identifier < b.identifier

UserBeforeInDomain(a, b) ==
    \/ TextLess(a.email, b.email)
    \/ a.email = b.email /\ a.identifier < b.identifier

UserBefore(a, b) ==
    \/ DomainBefore(a.domain_id, b.domain_id)
    \/ a.domain_id = b.domain_id /\ UserBeforeInDomain(a, b)

AliasBefore(a, b) ==
    \/ TextLess(a.source, b.source)
    \/ a.source = b.source /\ TextLess(a.destination, b.destination)
    \/ /\ a.source = b.source /\ a.destination = b.destination
       /\ \/ DomainBefore(a.domain_id, b.domain_id)
          \/ a.domain_id = b.domain_id /\ a.identifier < b.identifier

db_get_domains(rows) ==
    SortRows(rows.domains, [a, b \in rows.domains |-> DomainBefore(a, b)])

db_create_domain(rows, name) ==
    [rows EXCEPT !.domains =
        @ \cup {[identifier |-> NextId({d \in @ : d.name = name}), name |-> name]}]

\* the rows of the domain's users and aliases go with it (the schema's
\* ON DELETE CASCADE)
db_delete_domain(rows, domain) ==
    [domains |-> rows.domains \ {domain},
     users   |-> {u \in rows.users : u.domain_id # domain},
     aliases |-> {a \in rows.aliases : a.domain_id # domain}]

db_get_users(rows) ==
    SortRows(rows.users, [a, b \in rows.users |-> UserBefore(a, b)])

db_get_users_of(rows, domain) ==
    SortRows({u \in rows.users : u.domain_id = domain},
             [a, b \in rows.users |-> UserBeforeInDomain(a, b)])

\* the password hash is not part of any listing
db_create_user(rows, domain, email, password, quota) ==
    [rows EXCEPT !.users =
        @ \cup {[identifier |-> NextId({u \in @ : /\ u.domain_id = domain
                                           /\ u.email = email
                                           /\ u.quota = quota}),
                 domain_id |-> domain, email |-> email, quota |-> quota]}]

db_update_password(rows, user, password) == rows

db_update_quota(rows, user, quota) ==
    [rows EXCEPT !.users =
        (@ \ {user})
        \cup {[user EXCEPT !.quota = quota,
                           !.identifier = NextId({u \in rows.users \ {user} :
                                            /\ u.domain_id = user.domain_id
                                            /\ u.email = user.email
                                            /\ u.quota = quota})]}]

db_delete_user(rows, user) == [rows EXCEPT !.users = @ \ {user}]

db_get_aliases(rows) ==
    SortRows(rows.aliases, [a, b \in rows.aliases |-> AliasBefore(a, b)])

db_get_aliases_of(rows, domain) ==
    SortRows({a \in rows.aliases : a.domain_id = domain},
             [a, b \in rows.aliases |-> AliasBefore(a, b)])

db_create_alias(rows, domain, source, destination) ==
    [rows EXCEPT !.aliases =
        @ \cup {[identifier |-> NextId({a \in @ : /\ a.domain_id = domain
                                           /\ a.source = source
                                           /\ a.destination = destination}),
                 domain_id |-> domain, source |-> source,
                 destination |-> destination]}]

db_delete_alias(rows, alias) == [rows EXCEPT !.aliases = @ \ {alias}]

-----------------------------------------------------------------------------
(* Quota text *)

DecDigits == {"0", "1", "2", "3", "4", "5", "6", "7", "8", "9"}

\* the length of the longest prefix of s made of characters of Class
PrefixLen(s, Class) ==
    CHOOSE n \in 0..Len(s) :
        /\ \A i \in 1..n : s[i] \in Class
        /\ n = Len(s) \/ s[n + 1] \notin Class

Drop(s, n) == SubSeq(s, n + 1, Len(s))

RECURSIVE Pow10(_)
Pow10(n) == IF n = 0 THEN 1 ELSE 10 * Pow10(n - 1)

RECURSIVE DigitsValue(_)
\* the number a string of decimal digits writes
DigitsValue(s) ==
    IF s = <<>> THEN 0
    ELSE 10 * DigitsValue(SubSeq(s, 1, Len(s) - 1)) + (Ord(s[Len(s)]) - 48)

RECURSIVE Decimal(_, _)
\* the number m / 10^e, written with as few decimals as it needs
Decimal(m, e) ==
    IF e > 0 /\ m % 10 = 0 THEN Decimal(m \div 10, e - 1)
    ELSE [m |-> m, e |-> e]

FloatOf(t) ==
    LET digits == SelectSeq(t, LAMBDA c : c \in DecDigits)
        point == IF Contains(t, ".") THEN CHOOSE i \in 1..Len(t) : t[i] = "."
                 ELSE Len(t) + 1
    IN  Decimal(DigitsValue(digits), IF point > Len(t) THEN 0 ELSE Len(t) - point)

RECURSIVE DigitsOf(_)
\* the decimal digits that write a natural number
DigitsOf(n) ==
    LET digit == <<"0", "1", "2", "3", "4", "5", "6", "7", "8", "9">>[(n % 10) + 1]
    IN  IF n < 10 THEN <<digit>> ELSE Append(DigitsOf(n \div 10), digit)

\* f'{quota:.2f} <unit>' after the divisions by 1000 that bring the amount
\* under 1000, or 'unlimited'.  quota is m / 10^e; after k divisions it is
\* m / 10^(e + 3k).  A decimal that lies exactly between two hundredths is
\* printed as its binary float falls; here it goes to the even hundredth.
format_quota(quota) ==
    LET Under1000(k) == quota.m < 1000 * Pow10(quota.e + 3 * k)
        Hundredths(k) ==
            LET e == quota.e + 3 * k
                d == Pow10(IF e > 2 THEN e - 2 ELSE 0)
                whole == quota.m \div d
                left == quota.m % d
            IN  IF e <= 2 THEN quota.m * Pow10(2 - e)
                ELSE IF 2 * left > d \/ (2 * left = d /\ whole % 2 = 1)
                THEN whole + 1
                ELSE whole
        Fixed2(k) ==
            DigitsOf(Hundredths(k) \div 100) \o <<".">>
            \o DigitsOf((Hundredths(k) % 100) \div 10)
            \o DigitsOf(Hundredths(k) % 10)
    IN  IF quota.m = 0 THEN <<"u", "n", "l", "i", "m", "i", "t", "e", "d">>
        ELSE IF Under1000(0)
        THEN Fixed2(0) \o <<" ", "b", "y", "t", "e", "s">>
        ELSE IF Under1000(1) THEN Fixed2(1) \o <<" ", "K", "B">>
        ELSE IF Under1000(2) THEN Fixed2(2) \o <<" ", "M", "B">>
        ELSE Fixed2(3) \o <<" ", "G", "B">>

\* a parse_quota whose units are powers of 1024
ScaleBinary(q, k) ==
    Decimal(q.m * (CASE k = 3 -> 1024 [] k = 6 -> 1024 * 1024
                     [] k = 9 -> 1024 * 1024 * 1024), q.e)

Scale(q, k) == Decimal(q.m * Pow10(k), q.e)

QuotaOk(q) == [ok |-> TRUE, quota |-> q, err |-> ""]

QuotaError(msg) == [ok |-> FALSE, quota |-> Decimal(0, 0), err |-> msg]

\* re.match(r'([0-9.,]+)\s*(\w+)?', quota_raw), float() and the quantifier.
\* WordChars: \w of the characters the model uses.  FloatOk: float() takes
\* digits with at most one point and no comma.
parse_quota(quota_raw) ==
    LET SpaceChars == {" "}
        WordChars == DecDigits \cup {"a", "b", "c", "g", "k", "m", "q", "x",
                                     "B", "G", "K", "M", "Q", "X"}
        casefold(c) ==
            CASE c = "B" -> "b" [] c = "G" -> "g" [] c = "K" -> "k"
              [] c = "M" -> "m" [] c = "Q" -> "q" [] c = "X" -> "x"
              [] OTHER -> c
        FloatOk(t) ==
            /\ \E i \in 1..Len(t) : t[i] \in DecDigits
            /\ ~Contains(t, ",")
            /\ Cardinality({i \in 1..Len(t) : t[i] = "."}) <= 1
        n1 == PrefixLen(quota_raw, DecDigits \cup {".", ","})
        number == SubSeq(quota_raw, 1, n1)
        rest == Drop(quota_raw, n1)
        after == Drop(rest, PrefixLen(rest, SpaceChars))
        word == SubSeq(after, 1, PrefixLen(after, WordChars))
        quantifier == [i \in 1..Len(word) |-> casefold(word[i])]
    IN  IF n1 = 0 THEN QuotaError("invalid quota")
        ELSE IF ~FloatOk(number) THEN QuotaError("could not convert string to float")
        ELSE IF word = <<>> THEN QuotaOk(FloatOf(number))
        ELSE IF quantifier = <<"k", "b">> THEN QuotaOk(Scale(FloatOf(number), 3))
        ELSE IF quantifier = <<"m", "b">> THEN QuotaOk(Scale(FloatOf(number), 6))
        ELSE IF quantifier = <<"g", "b">> THEN QuotaOk(Scale(FloatOf(number), 9))
        ELSE QuotaError("invalid quota quantifier")

-----------------------------------------------------------------------------
(* The blocklist file /etc/postfix/access: whether it exists and its lines, *)
(* each ended by a newline.  A line is blank, a comment, or a record       *)
(* "<addr> <act>".                                                         *)

RejectLine(address) == [kind |-> "rec", addr |-> address, act |-> "REJECT"]

IsRejectLine(l) == l.kind = "rec" /\ l.act = "REJECT"

RECURSIVE RejectAddrs(_)
RejectAddrs(lines) ==
    IF lines = <<>> THEN <<>>
    ELSE (IF IsRejectLine(Head(lines)) THEN <<Head(lines).addr>> ELSE <<>>)
         \o RejectAddrs(Tail(lines))

read_blocked_entries(bf) == IF bf.exists THEN RejectAddrs(bf.lines) ELSE <<>>

add_blocked_entry(bf, address) ==
    [exists |-> TRUE,
     lines |-> Append(IF bf.exists THEN bf.lines ELSE <<>>, RejectLine(address))]

RECURSIVE KeepLines(_, _)
KeepLines(lines, address) ==
    IF lines = <<>> THEN <<>>
    ELSE (IF IsRejectLine(Head(lines)) /\ Head(lines).addr = address
          THEN <<>> ELSE <<Head(lines)>>)
         \o KeepLines(Tail(lines), address)

remove_blocked_entry(bf, address) ==
    IF bf.exists THEN [bf EXCEPT !.lines = KeepLines(@, address)] ELSE bf

-----------------------------------------------------------------------------
(* curses *)

\* window.addstr(y, x, text) of n characters in a window of scr.lines by
\* scr.cols: curses.error unless the position is inside the window and the
\* text, wrapped at the right edge, ends before the window's last cell
addstr(scr, y, x, n) ==
    /\ y < scr.lines
    /\ x < scr.cols
    /\ n < (scr.lines - y) * scr.cols - x

-----------------------------------------------------------------------------
(* Note *)

\* scr: the size [lines, cols] of the screen the widget's window is derived from
NoteInit(id, scr) ==
    [kind |-> "Note", id |-> id, lines |-> scr.lines, cols |-> scr.cols]

NoteKey(w, key) ==
    IF key \in EnterKeys \cup QuitKeys THEN Leaving(w, None) ELSE Going(w)

-----------------------------------------------------------------------------
(* Confirm *)

ConfirmInit(id, scr, opta_text, optb_text) ==
    [kind |-> "Confirm", id |-> id, lines |-> scr.lines, cols |-> scr.cols,
     opta_text |-> opta_text, optb_text |-> optb_text, opta_active |-> TRUE]

\* a Confirm whose quit key answers with the first option
ConfirmKeyQuitChoosesA(w, key) ==
    IF key \in EnterKeys
    THEN Leaving(w, IF w.opta_active THEN OPTA ELSE OPTB)
    ELSE IF key = "KEY_UP" THEN Going([w EXCEPT !.opta_active = TRUE])
    ELSE IF key = "KEY_DOWN" THEN Going([w EXCEPT !.opta_active = FALSE])
    ELSE IF key \in QuitKeys THEN Leaving(w, OPTA)
    ELSE Going(w)

ConfirmKey(w, key) ==
    IF key \in EnterKeys
    THEN Leaving(w, IF w.opta_active THEN OPTA ELSE OPTB)
    ELSE IF key = "KEY_UP" THEN Going([w EXCEPT !.opta_active = TRUE])
    ELSE IF key = "KEY_DOWN" THEN Going([w EXCEPT !.opta_active = FALSE])
    ELSE IF key \in QuitKeys THEN Leaving(w, OPTNONE)
    ELSE Going(w)

-----------------------------------------------------------------------------
(* Select *)

\* items: the payloads of the entries, in order; the synthetic return entry,
\* whose payload is None, is appended
\* pad: the size of curses.newpad(len(self.items) + 4, cols - 2)
SelectInit(id, scr, items) ==
    [kind |-> "Select", id |-> id, lines |-> scr.lines, cols |-> scr.cols,
     position |-> 0,
     items |-> Append(items, None),
     pad |-> [lines |-> Len(items) + 1 + 4, cols |-> scr.cols - 2]]

\* Select.draw().  The entries are written to the pad: entry index on row
\* index + 3, the return entry on row index + 4, and when it is the only
\* entry on row 5 under 'No entry to select' (the texts are taken to be
\* shorter than the pad is wide).  ok: no addstr raised.  row: the pad row
\* of the highlighted entry.  first..last: the pad rows that pad.refresh
\* copies to the window, which take a negative padpos as 0 and end with the
\* pad.
Select_draw(w) ==
    LET n == Len(w.items)
        Row(index) == IF n = 1 THEN 5
                      ELSE IF index = n - 1 THEN index + 4 ELSE index + 3
        over == (w.lines - 5) - (n - w.position)
        padpos == IF over > 0 THEN w.position - over ELSE w.position
        pminrow == IF padpos < 0 THEN 0 ELSE padpos
        bottom == pminrow + w.lines - 1
    IN  [ok |-> /\ n = 1 => addstr(w.pad, 3, 1, 0)
                /\ \A index \in 0..(n - 1) : addstr(w.pad, Row(index), 1, 0),
         row |-> Row(w.position),
         first |-> pminrow,
         last |-> IF bottom > w.pad.lines - 1 THEN w.pad.lines - 1 ELSE bottom]

\* a Select whose highlight wraps around
Select_navigateWrapping(w, num) ==
    [w EXCEPT !.position = (w.position + num) % Len(w.items)]

Select_navigate(w, num) ==
    LET p == w.position + num IN
    [w EXCEPT !.position = IF p < 0 THEN 0
                           ELSE IF p >= Len(w.items) THEN Len(w.items) - 1
                           ELSE p]

\* a Select whose quit key returns the highlighted entry
SelectKeyQuitSelects(w, key) ==
    IF key \in EnterKeys \cup QuitKeys
    THEN Leaving(w, IF w.position # Len(w.items) - 1
                    THEN w.items[w.position + 1] ELSE None)
    ELSE IF key = "KEY_UP" THEN Going(Select_navigate(w, -1))
    ELSE IF key = "KEY_DOWN" THEN Going(Select_navigate(w, 1))
    ELSE IF key = "KEY_NPAGE" THEN Going(Select_navigate(w, 15))
    ELSE IF key = "KEY_PPAGE" THEN Going(Select_navigate(w, -15))
    ELSE Going(w)

\* a Select whose page keys move by ten entries
SelectKeyPageOfTen(w, key) ==
    IF key \in EnterKeys
    THEN Leaving(w, IF w.position # Len(w.items) - 1
                    THEN w.items[w.position + 1] ELSE None)
    ELSE IF key = "KEY_UP" THEN Going(Select_navigate(w, -1))
    ELSE IF key = "KEY_DOWN" THEN Going(Select_navigate(w, 1))
    ELSE IF key = "KEY_NPAGE" THEN Going(Select_navigate(w, 10))
    ELSE IF key = "KEY_PPAGE" THEN Going(Select_navigate(w, -10))
    ELSE IF key \in QuitKeys THEN Leaving(w, None)
    ELSE Going(w)

SelectKey(w, key) ==
    IF key \in EnterKeys
    THEN Leaving(w, IF w.position # Len(w.items) - 1
                    THEN w.items[w.position + 1] ELSE None)
    ELSE IF key = "KEY_UP" THEN Going(Select_navigate(w, -1))
    ELSE IF key = "KEY_DOWN" THEN Going(Select_navigate(w, 1))
    ELSE IF key = "KEY_NPAGE" THEN Going(Select_navigate(w, 15))
    ELSE IF key = "KEY_PPAGE" THEN Going(Select_navigate(w, -15))
    ELSE IF key \in QuitKeys THEN Leaving(w, None)
    ELSE Going(w)

-----------------------------------------------------------------------------
(* SingleInput *)

SingleInputInit(id, scr, input_visible) ==
    [kind |-> "SingleInput", id |-> id, lines |-> scr.lines,
     cols |-> scr.cols, input_visible |-> input_visible,
     input_string |-> <<>>, input_active |-> TRUE,
     input_size |-> scr.cols - 9]

\* a SingleInput that takes an empty buffer for a cancellation
SingleInputReturnIfAny(w) ==
    IF w.input_active /\ w.input_string # <<>> THEN Str(w.input_string)
    ELSE None

SingleInputReturn(w) ==
    IF w.input_active THEN Str(w.input_string) ELSE None

\* a SingleInput whose backspace empties the buffer
SingleInputKeyBackspaceClears(w, key) ==
    IF key \in EnterKeys THEN Leaving(w, SingleInputReturn(w))
    ELSE IF key = "KEY_UP" THEN Going([w EXCEPT !.input_active = TRUE])
    ELSE IF key = "KEY_DOWN" THEN Going([w EXCEPT !.input_active = FALSE])
    ELSE IF w.input_active /\ isgraph(key)
    THEN Going([w EXCEPT !.input_string = Append(@, key)])
    ELSE IF w.input_active /\ key \in BackspaceKeys
    THEN Going([w EXCEPT !.input_string = <<>>])
    ELSE Going(w)

\* a SingleInput that takes characters and Backspace whatever has the focus
SingleInputKeyAnyFocus(w, key) ==
    IF key \in EnterKeys THEN Leaving(w, SingleInputReturn(w))
    ELSE IF key = "KEY_UP" THEN Going([w EXCEPT !.input_active = TRUE])
    ELSE IF key = "KEY_DOWN" THEN Going([w EXCEPT !.input_active = FALSE])
    ELSE IF isgraph(key)
    THEN Going([w EXCEPT !.input_string = Append(@, key)])
    ELSE IF key \in BackspaceKeys /\ w.input_string # <<>>
    THEN Going([w EXCEPT !.input_string = SubSeq(@, 1, Len(@) - 1)])
    ELSE Going(w)

SingleInputKey(w, key) ==
    IF key \in EnterKeys THEN Leaving(w, SingleInputReturn(w))
    ELSE IF key = "KEY_UP" THEN Going([w EXCEPT !.input_active = TRUE])
    ELSE IF key = "KEY_DOWN" THEN Going([w EXCEPT !.input_active = FALSE])
    ELSE IF w.input_active /\ isgraph(key)
    THEN Going([w EXCEPT !.input_string = Append(@, key)])
    ELSE IF w.input_active /\ key \in BackspaceKeys /\ w.input_string # <<>>
    THEN Going([w EXCEPT !.input_string = SubSeq(@, 1, Len(@) - 1)])
    ELSE Going(w)

-----------------------------------------------------------------------------
(* Info *)

\* nl: the number of newline characters in the text shown.  draw() leaves
\* the pad's cursor on the row of the trailing "Return to ..." line, which
\* is row 2 + nl + 2 when no line of the text wraps
InfoDrawnSize(nl) == 2 + nl + 2

InfoInit(id, scr, nl) ==
    [kind |-> "Info", id |-> id, lines |-> scr.lines, cols |-> scr.cols,
     nl |-> nl, pos |-> 0, size |-> 0]

InfoDraw(w) == [w EXCEPT !.size = InfoDrawnSize(w.nl)]

Info_navigate(w, num) ==
    LET p == w.pos + num
        q == IF p < 0 THEN 0 ELSE p
        top == w.size - w.lines + 4
    IN  [w EXCEPT !.pos = IF q > top THEN top ELSE q]

\* an Info that takes Enter for a page down until its last line is shown
InfoKeyEnterAtEnd(w, key) ==
    IF key \in QuitKeys THEN Leaving(w, None)
    ELSE IF key \in EnterKeys
    THEN IF Info_navigate(w, 15) = w THEN Leaving(w, None)
         ELSE Going(Info_navigate(w, 15))
    ELSE IF key = "KEY_UP" THEN Going(Info_navigate(w, -1))
    ELSE IF key = "KEY_DOWN" THEN Going(Info_navigate(w, 1))
    ELSE IF key = "KEY_NPAGE" THEN Going(Info_navigate(w, 15))
    ELSE IF key = "KEY_PPAGE" THEN Going(Info_navigate(w, -15))
    ELSE Going(w)

InfoKey(w, key) ==
    IF key \in EnterKeys \cup QuitKeys THEN Leaving(w, None)
    ELSE IF key = "KEY_UP" THEN Going(Info_navigate(w, -1))
    ELSE IF key = "KEY_DOWN" THEN Going(Info_navigate(w, 1))
    ELSE IF key = "KEY_NPAGE" THEN Going(Info_navigate(w, 15))
    ELSE IF key = "KEY_PPAGE" THEN Going(Info_navigate(w, -15))
    ELSE Going(w)

-----------------------------------------------------------------------------
(* One pass of a leaf widget's run loop: draw, read a key, handle it *)

LeafDraw(w) == IF w.kind = "Info" THEN InfoDraw(w) ELSE w

LeafKey(w, key) ==
    CASE w.kind = "Note"        -> NoteKey(w, key)
      [] w.kind = "Confirm"     -> ConfirmKey(w, key)
      [] w.kind = "Select"      -> SelectKey(w, key)
      [] w.kind = "SingleInput" -> SingleInputKey(w, key)
      [] w.kind = "Info"        -> InfoKey(LeafDraw(w), key)

-----------------------------------------------------------------------------
(* Menu *)

NoMenu == [kind |-> "None", id |-> "", children |-> {}]

MenuRow(label, cb) == [label |-> label, cb |-> cb]

\* top_title: the breadcrumb of the parent, <<>> for the root menu; the
\* synthetic exit row, whose callback is the placeholder os.abort, is appended
MenuInit(id, scr, title, top_title, items, args) ==
    [kind |-> "Menu", id |-> id, lines |-> scr.lines, cols |-> scr.cols,
     position |-> 0,
     items |-> Append(items,
                      MenuRow(IF top_title # <<>> THEN "Return to <parent>"
                              ELSE "Exit and Save Changes", "os.abort")),
     full_title |-> top_title \o <<title>>,
     args |-> args, children |-> {}]

\* a Menu whose highlight wraps around
Menu_navigateWrapping(m, num) ==
    [m EXCEPT !.position = (m.position + num) % Len(m.items)]

Menu_navigate(m, num) ==
    LET p == m.position + num IN
    [m EXCEPT !.position = IF p < 0 THEN 0
                           ELSE IF p >= Len(m.items) THEN Len(m.items) - 1
                           ELSE p]

\* one pass of Menu.run up to the callback: what the key asks for
MenuStay(m) == [kind |-> "stay", m |-> m, idx |-> -1]

MenuBreak(m) == [kind |-> "break", m |-> m, idx |-> -1]

MenuCall(m, idx) == [kind |-> "call", m |-> m, idx |-> idx]

MenuTypeError(m) == [kind |-> "raise", m |-> m, idx |-> -1]

\* a Menu that takes the row after the last for the exit row
MenuActivateOffByOne(m, idx) ==
    IF idx = Len(m.items) THEN MenuBreak(m) ELSE MenuCall(m, idx)

MenuActivate(m, idx) ==
    IF idx = Len(m.items) - 1 THEN MenuBreak(m) ELSE MenuCall(m, idx)

\* a Menu whose digit keys move the highlight to the row they activate
MenuKeyDigitMoves(m, key) ==
    IF key \in EnterKeys THEN MenuActivate(m, m.position)
    ELSE IF key \in Digits /\ Ord(key) - 48 <= Len(m.items)
    THEN MenuActivate([m EXCEPT !.position = Ord(key) - 48 - 1],
                      Ord(key) - 48 - 1)
    ELSE IF Len(m.items) >= 10 THEN MenuTypeError(m)
    ELSE IF key = "KEY_UP" THEN MenuStay(Menu_navigate(m, -1))
    ELSE IF key = "KEY_DOWN" THEN MenuStay(Menu_navigate(m, 1))
    ELSE IF key \in QuitKeys THEN MenuBreak(m)
    ELSE MenuStay(m)

\* key in map(ord, map(str, range(1, len(self.items) + 1))): the digits
\* '1'..'9' up to the row count; with ten rows or more ord('10') raises
\* TypeError once the search gets that far
MenuKey(m, key) ==
    IF key \in EnterKeys THEN MenuActivate(m, m.position)
    ELSE IF key \in Digits /\ Ord(key) - 48 <= Len(m.items)
    THEN MenuActivate(m, Ord(key) - 48 - 1)
    ELSE IF Len(m.items) >= 10 THEN MenuTypeError(m)
    ELSE IF key = "KEY_UP" THEN MenuStay(Menu_navigate(m, -1))
    ELSE IF key = "KEY_DOWN" THEN MenuStay(Menu_navigate(m, 1))
    ELSE IF key \in QuitKeys THEN MenuBreak(m)
    ELSE MenuStay(m)

-----------------------------------------------------------------------------
(* Workflows.  A workflow runs from the return of one run() to the next    *)
(* run() it starts, to its own return, or to the error a data-access call  *)
(* raises.  pc names the handle whose run() it is waiting in ("start": not *)
(* yet called), loc holds its local variables, ret is what that run()      *)
(* returned.  S is what it reads and writes: the session's rows (db), the  *)
(* rows as of the last commit (dbc), the blocklist file (bf) and the size  *)
(* of the screen it is given (scr).  fail: its first data-access call      *)
(* raises MySQLdb.Error.                                                   *)

NoLoc == [none |-> TRUE]

Outcome(kind, S, calls) ==
    [kind |-> kind, db |-> S.db, dbc |-> S.dbc, bf |-> S.bf, calls |-> calls,
     leaf |-> NoLeaf, pc |-> "", loc |-> NoLoc, value |-> None,
     menu |-> NoMenu]

\* the workflow starts w.run()
Open(S, calls, w, pc, loc) ==
    [Outcome("open", S, calls) EXCEPT !.leaf = w, !.pc = pc, !.loc = loc]

\* the workflow starts the run() of a nested menu
OpenMenu(S, m, pc) == [Outcome("menu", S, {}) EXCEPT !.menu = m, !.pc = pc]

\* the workflow returns v
Return(S, calls, v) == [Outcome("return", S, calls) EXCEPT !.value = v]

\* a data-access call raises
Raise(S) == Outcome("raise", S, {})

True == [tag |-> "bool", val |-> TRUE]

False == [tag |-> "bool", val |-> FALSE]

WithDb(S, db) == [S EXCEPT !.db = db]

WithBf(S, bf) == [S EXCEPT !.bf = bf]

Range(f) == {f[i] : i \in DOMAIN f}

\* the lines that the listing of aliases adds: one per alias and one more
\* for each run of equal sources
AliasLines(aliases) ==
    Len(aliases)
    + Cardinality({i \in 1..Len(aliases) :
                     i = 1 \/ aliases[i - 1].source # aliases[i].source})

\* needle in text (Python's substring test)
IsIn(needle, text) ==
    \E i \in 0..(Len(text) - Len(needle)) :
        SubSeq(text, i + 1, i + Len(needle)) = needle

domain_overview_win(pc, loc, ret, S, fail) ==
    IF pc = "start"
    THEN IF fail THEN Raise(S)
         ELSE Open(S, {}, InfoInit("Domain Overview", S.scr,
                                   2 + Len(db_get_domains(S.db))),
                   "handle", NoLoc)
    ELSE Return(S, {}, None)

full_overview_win(pc, loc, ret, S, fail) ==
    IF pc = "start"
    THEN IF fail THEN Raise(S)
         ELSE Open(S, {}, InfoInit("Full Overview", S.scr,
                                   2 + Len(db_get_domains(S.db))
                                   + 3 + Len(db_get_users(S.db))
                                   + 3 + AliasLines(db_get_aliases(S.db))),
                   "handle", NoLoc)
    ELSE Return(S, {}, None)

search_win(pc, loc, ret, S, fail) ==
    CASE pc = "start" ->
           Open(S, {}, SingleInputInit("Search", S.scr, TRUE), "handle0", NoLoc)
      [] pc = "handle0" ->
           IF ~Truthy(ret) THEN Return(S, {}, None)
           ELSE IF fail THEN Raise(S)
           ELSE LET search_term == ret.val
                    domains == SelectSeq(db_get_domains(S.db),
                                         LAMBDA d : IsIn(search_term, d.name))
                    users == SelectSeq(db_get_users(S.db),
                                       LAMBDA u : IsIn(search_term, u.email))
                    aliases == SelectSeq(db_get_aliases(S.db),
                                         LAMBDA a : \/ IsIn(search_term, a.source)
                                                    \/ IsIn(search_term, a.destination))
                IN  Open(S, {}, InfoInit("Search Results", S.scr,
                           2 + (IF domains # <<>> THEN 2 + Len(domains) ELSE 0)
                             + (IF users # <<>> THEN 3 + Len(users) ELSE 0)
                             + (IF aliases # <<>> THEN 3 + AliasLines(aliases)
                                ELSE 0)),
                         "handle1", NoLoc)
      [] pc = "handle1" -> Return(S, {}, None)

\* an addition of a domain that does not look the name up
domain_add_winUnchecked(pc, loc, ret, S, fail) ==
    CASE pc = "start" ->
           Open(S, {}, SingleInputInit("Add Domain", S.scr, TRUE), "handle0",
                NoLoc)
      [] pc = "handle0" ->
           IF ~Truthy(ret) THEN Return(S, {}, None)
           ELSE IF fail THEN Raise(S)
           ELSE Open(WithDb(S, db_create_domain(S.db, ret.val)),
                     {"db_create_domain"},
                     NoteInit("Add Domain Successful", S.scr), "handle1", NoLoc)
      [] pc = "handle1" -> Return(S, {}, None)

domain_add_win(pc, loc, ret, S, fail) ==
    CASE pc = "start" ->
           Open(S, {}, SingleInputInit("Add Domain", S.scr, TRUE), "handle0",
                NoLoc)
      [] pc = "handle0" ->
           IF ~Truthy(ret) THEN Return(S, {}, None)
           ELSE IF fail THEN Raise(S)
           ELSE IF ret.val \in {d.name : d \in Range(db_get_domains(S.db))}
           THEN Open(S, {}, NoteInit("Add Domain Failed", S.scr), "handle1",
                     NoLoc)
           ELSE Open(WithDb(S, db_create_domain(S.db, ret.val)),
                     {"db_create_domain"},
                     NoteInit("Add Domain Successful", S.scr), "handle1", NoLoc)
      [] pc = "handle1" -> Return(S, {}, None)

DomainItems ==
    << MenuRow("List users and aliases", "domain_list_usersaliases_win"),
       MenuRow("Change password of an user", "domain_change_pw_win"),
       MenuRow("Change quota of an user", "domain_change_quota_win"),
       MenuRow("Add user", "domain_add_user_win"),
       MenuRow("Add alias", "domain_add_alias_win"),
       MenuRow("Delete user", "domain_delete_user_win"),
       MenuRow("Delete alias", "domain_delete_alias_win"),
       MenuRow("Delete domain", "domain_delete_confirm_win") >>

\* a Select entry for each row of a listing
Entries(rows) == [i \in 1..Len(rows) |-> Obj(rows[i])]

domain_selection_win(pc, loc, ret, S, fail) ==
    CASE pc = "start" ->
           IF fail THEN Raise(S)
           ELSE Open(S, {}, SelectInit("Select Domain to manage", S.scr,
                                       Entries(db_get_domains(S.db))),
                     "handle0", NoLoc)
      [] pc = "handle0" ->
           IF ~Truthy(ret) THEN Return(S, {}, None)
           ELSE OpenMenu(S, MenuInit("Manage Domain", S.scr, "Manage Domain",
                                     <<"Overview">>, DomainItems, ret.val),
                         "handle1")
      [] pc = "handle1" -> Return(S, {}, None)

domain_list_usersaliases_win(pc, loc, ret, S, fail, domain) ==
    IF pc = "start"
    THEN IF fail THEN Raise(S)
         ELSE Open(S, {}, InfoInit("List of users and aliases", S.scr,
                                   3 + Len(db_get_users_of(S.db, domain))
                                   + 3 + AliasLines(db_get_aliases_of(S.db, domain))),
                   "handle", NoLoc)
    ELSE Return(S, {}, None)

domain_delete_user_win(pc, loc, ret, S, fail, domain) ==
    CASE pc = "start" ->
           IF fail THEN Raise(S)
           ELSE Open(S, {}, SelectInit("Select user to delete", S.scr,
                                       Entries(db_get_users_of(S.db, domain))),
                     "handle0", NoLoc)
      [] pc = "handle0" ->
           IF ~Truthy(ret) THEN Return(S, {}, None)
           ELSE Open(S, {}, ConfirmInit("Delete User", S.scr, "no", "yes"), "handle1",
                     [user |-> ret.val])
      [] pc = "handle1" ->
           IF ret = OPTB
           THEN IF fail THEN Raise(S)
                ELSE Return(WithDb(S, db_delete_user(S.db, loc.user)),
                            {"db_delete_user"}, None)
           ELSE Return(S, {}, None)

domain_delete_alias_win(pc, loc, ret, S, fail, domain) ==
    CASE pc = "start" ->
           IF fail THEN Raise(S)
           ELSE Open(S, {}, SelectInit("Select alias to delete", S.scr,
                                       Entries(db_get_aliases_of(S.db, domain))),
                     "handle0", NoLoc)
      [] pc = "handle0" ->
           IF ~Truthy(ret) THEN Return(S, {}, None)
           ELSE Open(S, {}, ConfirmInit("Delete Alias", S.scr, "no", "yes"), "handle1",
                     [alias |-> ret.val])
      [] pc = "handle1" ->
           IF ret = OPTB
           THEN IF fail THEN Raise(S)
                ELSE Return(WithDb(S, db_delete_alias(S.db, loc.alias)),
                            {"db_delete_alias"}, None)
           ELSE Return(S, {}, None)

\* a change of password that only compares the two inputs
domain_change_pw_winEqualOnly(pc, loc, ret, S, fail, domain) ==
    CASE pc = "start" ->
           IF fail THEN Raise(S)
           ELSE Open(S, {}, SelectInit("Select user for password change", S.scr,
                                       Entries(db_get_users_of(S.db, domain))),
                     "handle0", NoLoc)
      [] pc = "handle0" ->
           IF ~Truthy(ret) THEN Return(S, {}, None)
           ELSE Open(S, {}, SingleInputInit("Password (1/2)", S.scr, FALSE),
                     "handle1", [user |-> ret.val])
      [] pc = "handle1" ->
           Open(S, {}, SingleInputInit("Password (2/2)", S.scr, FALSE),
                "handle2", [user |-> loc.user, pw1 |-> ret])
      [] pc = "handle2" ->
           IF loc.pw1 = ret
           THEN IF fail THEN Raise(S)
                ELSE Open(WithDb(S, db_update_password(S.db, loc.user, <<>>)),
                          {"db_update_password"},
                          NoteInit("Password Changed", S.scr), "handle3", NoLoc)
           ELSE Open(S, {}, NoteInit("Password Changed Failed", S.scr),
                     "handle3", NoLoc)
      [] pc = "handle3" -> Return(S, {}, None)

domain_change_pw_win(pc, loc, ret, S, fail, domain) ==
    CASE pc = "start" ->
           IF fail THEN Raise(S)
           ELSE Open(S, {}, SelectInit("Select user for password change", S.scr,
                                       Entries(db_get_users_of(S.db, domain))),
                     "handle0", NoLoc)
      [] pc = "handle0" ->
           IF ~Truthy(ret) THEN Return(S, {}, None)
           ELSE Open(S, {}, SingleInputInit("Password (1/2)", S.scr, FALSE),
                     "handle1", [user |-> ret.val])
      [] pc = "handle1" ->
           Open(S, {}, SingleInputInit("Password (2/2)", S.scr, FALSE),
                "handle2", [user |-> loc.user, pw1 |-> ret])
      [] pc = "handle2" ->
           IF Truthy(loc.pw1) /\ loc.pw1 = ret
           THEN IF fail THEN Raise(S)
                ELSE Open(WithDb(S, db_update_password(S.db, loc.user,
                                                       loc.pw1.val)),
                          {"db_update_password"},
                          NoteInit("Password Changed", S.scr), "handle3", NoLoc)
           ELSE Open(S, {}, NoteInit("Password Changed Failed", S.scr),
                     "handle3", NoLoc)
      [] pc = "handle3" -> Return(S, {}, None)

\* a change of quota that stores 0 when the text does not parse
domain_change_quota_winLenient(pc, loc, ret, S, fail, domain) ==
    CASE pc = "start" ->
           IF fail THEN Raise(S)
           ELSE Open(S, {}, SelectInit("Select user for quota change", S.scr,
                                       Entries(db_get_users_of(S.db, domain))),
                     "handle0", NoLoc)
      [] pc = "handle0" ->
           IF ~Truthy(ret) THEN Return(S, {}, None)
           ELSE Open(S, {}, SingleInputInit("Quota for user", S.scr, TRUE),
                     "handle1", [user |-> ret.val])
      [] pc = "handle1" ->
           IF ~Truthy(ret) THEN Return(S, {}, None)
           ELSE IF fail THEN Raise(S)
           ELSE Open(WithDb(S, db_update_quota(S.db, loc.user,
                                               parse_quota(ret.val).quota)),
                     {"db_update_quota"},
                     NoteInit("Quota Changed", S.scr), "handle2", NoLoc)
      [] pc = "handle2" -> Return(S, {}, None)

domain_change_quota_win(pc, loc, ret, S, fail, domain) ==
    CASE pc = "start" ->
           IF fail THEN Raise(S)
           ELSE Open(S, {}, SelectInit("Select user for quota change", S.scr,
                                       Entries(db_get_users_of(S.db, domain))),
                     "handle0", NoLoc)
      [] pc = "handle0" ->
           IF ~Truthy(ret) THEN Return(S, {}, None)
           ELSE Open(S, {}, SingleInputInit("Quota for user", S.scr, TRUE),
                     "handle1", [user |-> ret.val])
      [] pc = "handle1" ->
           IF ~Truthy(ret) THEN Return(S, {}, None)
           ELSE IF ~parse_quota(ret.val).ok
           THEN Open(S, {}, NoteInit("Quota Changed Failed", S.scr), "handle2",
                     NoLoc)
           ELSE IF fail THEN Raise(S)
           ELSE Open(WithDb(S, db_update_quota(S.db, loc.user,
                                               parse_quota(ret.val).quota)),
                     {"db_update_quota"},
                     NoteInit("Quota Changed", S.scr), "handle2", NoLoc)
      [] pc = "handle2" -> Return(S, {}, None)

\* an addition of a user that does not compare the two passwords
domain_add_user_winAnyPasswords(pc, loc, ret, S, fail, domain) ==
    CASE pc = "start" ->
           Open(S, {}, SingleInputInit("Add User (1/4)", S.scr, TRUE),
                "handle0", NoLoc)
      [] pc = "handle0" ->
           IF ~Truthy(ret) \/ Contains(ret.val, "@")
           THEN Open(S, {}, NoteInit("Add User Failed", S.scr), "note", NoLoc)
           ELSE IF fail THEN Raise(S)
           ELSE IF ret.val \o At \o domain.name
                   \in {u.email : u \in Range(db_get_users_of(S.db, domain))}
           THEN Open(S, {}, NoteInit("User Add Failed", S.scr), "note", NoLoc)
           ELSE Open(S, {}, SingleInputInit("Add User (2/4)", S.scr, FALSE),
                     "handle3", [user_name |-> ret.val])
      [] pc = "handle3" ->
           Open(S, {}, SingleInputInit("Add User (3/4)", S.scr, FALSE),
                "handle4", [user_name |-> loc.user_name, pw1 |-> ret])
      [] pc = "handle4" ->
           IF ~Truthy(loc.pw1) \/ ~Truthy(ret)
           THEN Open(S, {}, NoteInit("User Add Failed", S.scr), "note", NoLoc)
           ELSE Open(S, {}, SingleInputInit("Add User (4/4)", S.scr, TRUE),
                     "handle6", loc)
      [] pc = "handle6" ->
           IF ret = None THEN Return(S, {}, None)
           ELSE IF ~parse_quota(ret.val).ok
           THEN Open(S, {}, NoteInit("User Add Failed", S.scr), "note", NoLoc)
           ELSE IF fail THEN Raise(S)
           ELSE Open(WithDb(S, db_create_user(S.db, domain,
                                              loc.user_name \o At \o domain.name,
                                              loc.pw1.val,
                                              parse_quota(ret.val).quota)),
                     {"db_create_user"},
                     NoteInit("User Added Successful", S.scr), "note", NoLoc)
      [] pc = "note" -> Return(S, {}, None)

domain_add_user_win(pc, loc, ret, S, fail, domain) ==
    CASE pc = "start" ->
           Open(S, {}, SingleInputInit("Add User (1/4)", S.scr, TRUE),
                "handle0", NoLoc)
      [] pc = "handle0" ->
           IF ~Truthy(ret) \/ Contains(ret.val, "@")
           THEN Open(S, {}, NoteInit("Add User Failed", S.scr), "note", NoLoc)
           ELSE IF fail THEN Raise(S)
           ELSE IF ret.val \o At \o domain.name
                   \in {u.email : u \in Range(db_get_users_of(S.db, domain))}
           THEN Open(S, {}, NoteInit("User Add Failed", S.scr), "note", NoLoc)
           ELSE Open(S, {}, SingleInputInit("Add User (2/4)", S.scr, FALSE),
                     "handle3", [user_name |-> ret.val])
      [] pc = "handle3" ->
           Open(S, {}, SingleInputInit("Add User (3/4)", S.scr, FALSE),
                "handle4", [user_name |-> loc.user_name, pw1 |-> ret])
      [] pc = "handle4" ->
           IF ~Truthy(loc.pw1) \/ ~Truthy(ret) \/ loc.pw1 # ret
           THEN Open(S, {}, NoteInit("User Add Failed", S.scr), "note", NoLoc)
           ELSE Open(S, {}, SingleInputInit("Add User (4/4)", S.scr, TRUE),
                     "handle6", loc)
      [] pc = "handle6" ->
           IF ret = None THEN Return(S, {}, None)
           ELSE IF ~parse_quota(ret.val).ok
           THEN Open(S, {}, NoteInit("User Add Failed", S.scr), "note", NoLoc)
           ELSE IF fail THEN Raise(S)
           ELSE Open(WithDb(S, db_create_user(S.db, domain,
                                              loc.user_name \o At \o domain.name,
                                              loc.pw1.val,
                                              parse_quota(ret.val).quota)),
                     {"db_create_user"},
                     NoteInit("User Added Successful", S.scr), "note", NoLoc)
      [] pc = "note" -> Return(S, {}, None)

domain_add_alias_win(pc, loc, ret, S, fail, domain) ==
    CASE pc = "start" ->
           Open(S, {}, SingleInputInit("Add Alias (1/2)", S.scr, TRUE),
                "handle0", NoLoc)
      [] pc = "handle0" ->
           IF ~Truthy(ret) \/ Contains(ret.val, "@")
           THEN Open(S, {}, NoteInit("Add Alias Failed", S.scr), "note", NoLoc)
           ELSE Open(S, {}, SingleInputInit("Add Alias (2/2)", S.scr, TRUE),
                     "handle2", [source |-> ret.val])
      [] pc = "handle2" ->
           IF ~Truthy(ret) \/ ~Contains(ret.val, "@")
           THEN Open(S, {}, NoteInit("Add Alias Failed", S.scr), "note", NoLoc)
           ELSE IF fail THEN Raise(S)
           ELSE IF \E a \in Range(db_get_aliases_of(S.db, domain)) :
                      /\ a.source = loc.source \o At \o domain.name
                      /\ a.destination = ret.val
           THEN Open(S, {}, NoteInit("Add Alias Failed", S.scr), "note", NoLoc)
           ELSE Open(WithDb(S, db_create_alias(S.db, domain,
                                               loc.source \o At \o domain.name,
                                               ret.val)),
                     {"db_create_alias"},
                     NoteInit("Alias Added", S.scr), "note", NoLoc)
      [] pc = "note" -> Return(S, {}, None)

\* a deletion of the domain that reports nothing to the menu
domain_delete_confirm_winSilent(pc, loc, ret, S, fail, domain) ==
    CASE pc = "start" ->
           Open(S, {}, ConfirmInit("Delete Domain", S.scr, "no", "yes"),
                "handle", NoLoc)
      [] pc = "handle" ->
           IF ret = OPTB
           THEN IF fail THEN Raise(S)
                ELSE Return(WithDb(S, db_delete_domain(S.db, domain)),
                            {"db_delete_domain"}, False)
           ELSE Return(S, {}, False)

domain_delete_confirm_win(pc, loc, ret, S, fail, domain) ==
    CASE pc = "start" ->
           Open(S, {}, ConfirmInit("Delete Domain", S.scr, "no", "yes"), "handle", NoLoc)
      [] pc = "handle" ->
           IF ret = OPTB
           THEN IF fail THEN Raise(S)
                ELSE Return(WithDb(S, db_delete_domain(S.db, domain)),
                            {"db_delete_domain"}, True)
           ELSE Return(S, {}, False)

\* a discard that goes ahead unless the first option was chosen
discard_changes_winUnlessA(pc, loc, ret, S, fail) ==
    CASE pc = "start" ->
           Open(S, {}, ConfirmInit("Discard Changes", S.scr, "no", "yes"),
                "handle", NoLoc)
      [] pc = "handle" ->
           IF ret # OPTA
           THEN IF fail THEN Raise(S)
                ELSE Return(WithDb(S, S.dbc), {"rollback"}, None)
           ELSE Return(S, {}, None)

discard_changes_win(pc, loc, ret, S, fail) ==
    CASE pc = "start" ->
           Open(S, {}, ConfirmInit("Discard Changes", S.scr, "no", "yes"), "handle", NoLoc)
      [] pc = "handle" ->
           IF ret = OPTB
           THEN IF fail THEN Raise(S)
                ELSE Return(WithDb(S, S.dbc), {"rollback"}, None)
           ELSE Return(S, {}, None)

save_changes_win(pc, loc, ret, S, fail) ==
    CASE pc = "start" ->
           Open(S, {}, ConfirmInit("Save Changes", S.scr, "no", "yes"), "handle", NoLoc)
      [] pc = "handle" ->
           IF ret = OPTB
           THEN IF fail THEN Raise(S)
                ELSE Return([S EXCEPT !.dbc = S.db], {"commit"}, None)
           ELSE Return(S, {}, None)

BlockedItems ==
    << MenuRow("List blocked entries", "list_blocked_entries_win"),
       MenuRow("Add blocked entry", "add_blocked_entry_win"),
       MenuRow("Remove blocked entry", "remove_blocked_entry_win"),
       MenuRow("Return to <parent>", "lambda") >>

manage_blocked_emails_win(pc, loc, ret, S, fail) ==
    IF pc = "start"
    THEN OpenMenu(S, MenuInit("Manage Blocked Emails", S.scr,
                              "Manage Blocked Emails", <<"Overview">>,
                              BlockedItems, None), "handle")
    ELSE Return(S, {}, None)

list_blocked_entries_win(pc, loc, ret, S, fail) ==
    IF pc = "start"
    THEN LET entries == read_blocked_entries(S.bf)
         IN  Open(S, {}, InfoInit("Blocked Entries", S.scr,
                                  2 + (IF entries # <<>> THEN Len(entries) ELSE 1)),
                  "handle", NoLoc)
    ELSE Return(S, {}, None)

\* an 'Add blocked entry' that does not look for the address in the file
add_blocked_entry_winUnchecked(pc, loc, ret, S, fail) ==
    CASE pc = "start" ->
           Open(S, {}, SingleInputInit("Add Blocked Entry", S.scr, TRUE),
                "handle0", NoLoc)
      [] pc = "handle0" ->
           IF ~Truthy(ret) THEN Return(S, {}, None)
           ELSE Open(WithBf(S, add_blocked_entry(S.bf, ret.val)),
                     {"add_blocked_entry", "postmap"},
                     NoteInit("Entry Blocked", S.scr), "handle1", NoLoc)
      [] pc = "handle1" -> Return(S, {}, None)

add_blocked_entry_win(pc, loc, ret, S, fail) ==
    CASE pc = "start" ->
           Open(S, {}, SingleInputInit("Add Blocked Entry", S.scr, TRUE),
                "handle0", NoLoc)
      [] pc = "handle0" ->
           IF ~Truthy(ret) THEN Return(S, {}, None)
           ELSE IF ret.val \in Range(read_blocked_entries(S.bf))
           THEN Open(S, {}, NoteInit("Add Blocked Entry Failed", S.scr),
                     "handle1", NoLoc)
           ELSE Open(WithBf(S, add_blocked_entry(S.bf, ret.val)),
                     {"add_blocked_entry", "postmap"},
                     NoteInit("Entry Blocked", S.scr), "handle1", NoLoc)
      [] pc = "handle1" -> Return(S, {}, None)

remove_blocked_entry_win(pc, loc, ret, S, fail) ==
    CASE pc = "start" ->
           IF read_blocked_entries(S.bf) = <<>>
           THEN Open(S, {}, NoteInit("No Blocked Entries", S.scr), "note", NoLoc)
           ELSE Open(S, {}, SelectInit("Select Entry to Unblock", S.scr,
                                       Entries(read_blocked_entries(S.bf))),
                     "handle0", NoLoc)
      [] pc = "handle0" ->
           IF ~Truthy(ret) THEN Return(S, {}, None)
           ELSE Open(S, {}, ConfirmInit("Confirm Unblock", S.scr, "no", "yes"), "handle1",
                     [selected_entry |-> ret.val])
      [] pc = "handle1" ->
           IF ret = OPTB
           THEN Open(WithBf(S, remove_blocked_entry(S.bf, loc.selected_entry)),
                     {"remove_blocked_entry"}
                     \cup (IF S.bf.exists THEN {"postmap"} ELSE {}),
                     NoteInit("Entry Unblocked", S.scr), "note", NoLoc)
           ELSE Return(S, {}, None)
      [] pc = "note" -> Return(S, {}, None)

\* the fourth row of the blocklist menu: lambda *args: None
lambda(pc, loc, ret, S, fail) == Return(S, {}, None)

RootItems ==
    << MenuRow("List domains", "domain_overview_win"),
       MenuRow("List everything", "full_overview_win"),
       MenuRow("Add domain", "domain_add_win"),
       MenuRow("Search for domain/alias/email", "search_win"),
       MenuRow("Manage domain", "domain_selection_win"),
       MenuRow("Manage blocked emails", "manage_blocked_emails_win"),
       MenuRow("Save changes", "save_changes_win"),
       MenuRow("Discard changes", "discard_changes_win") >>

\* the callback cb, called with the menu's extra arguments args, from pc on
Workflow(cb, args, pc, loc, ret, S, fail) ==
    CASE cb = "domain_overview_win" -> domain_overview_win(pc, loc, ret, S, fail)
      [] cb = "full_overview_win" -> full_overview_win(pc, loc, ret, S, fail)
      [] cb = "domain_add_win" -> domain_add_win(pc, loc, ret, S, fail)
      [] cb = "search_win" -> search_win(pc, loc, ret, S, fail)
      [] cb = "domain_selection_win" -> domain_selection_win(pc, loc, ret, S, fail)
      [] cb = "manage_blocked_emails_win" ->
           manage_blocked_emails_win(pc, loc, ret, S, fail)
      [] cb = "save_changes_win" -> save_changes_win(pc, loc, ret, S, fail)
      [] cb = "discard_changes_win" -> discard_changes_win(pc, loc, ret, S, fail)
      [] cb = "domain_list_usersaliases_win" ->
           domain_list_usersaliases_win(pc, loc, ret, S, fail, args)
      [] cb = "domain_change_pw_win" ->
           domain_change_pw_win(pc, loc, ret, S, fail, args)
      [] cb = "domain_change_quota_win" ->
           domain_change_quota_win(pc, loc, ret, S, fail, args)
      [] cb = "domain_add_user_win" ->
           domain_add_user_win(pc, loc, ret, S, fail, args)
      [] cb = "domain_add_alias_win" ->
           domain_add_alias_win(pc, loc, ret, S, fail, args)
      [] cb = "domain_delete_user_win" ->
           domain_delete_user_win(pc, loc, ret, S, fail, args)
      [] cb = "domain_delete_alias_win" ->
           domain_delete_alias_win(pc, loc, ret, S, fail, args)
      [] cb = "domain_delete_confirm_win" ->
           domain_delete_confirm_win(pc, loc, ret, S, fail, args)
      [] cb = "list_blocked_entries_win" ->
           list_blocked_entries_win(pc, loc, ret, S, fail)
      [] cb = "add_blocked_entry_win" ->
           add_blocked_entry_win(pc, loc, ret, S, fail)
      [] cb = "remove_blocked_entry_win" ->
           remove_blocked_entry_win(pc, loc, ret, S, fail)
      [] cb = "lambda" -> lambda(pc, loc, ret, S, fail)
      [] cb = "os.abort" -> Outcome("abort", S, {})

-----------------------------------------------------------------------------
(* MainApp and the session *)

header_size == 5

footer_size == 1

main_margin == 2

\* the size of MainApp.working_win on a terminal of size t
Body(t) == [lines |-> t.lines - header_size - footer_size,
            cols |-> t.cols - 2 * main_margin]

\* the terminal sizes of the model
TermSizes == {[lines |-> 25, cols |-> 80], [lines |-> 40, cols |-> 120]}

\* the texts typed into a SingleInput of the session: one domain name; a
\* text without and a text with an at sign everywhere else
AppTexts(id) ==
    IF profile = "add user"
    THEN IF id = "Add User (1/4)" THEN {<<>>, <<"1">>, <<"a">>, <<"@">>}
         ELSE IF id = "Add User (4/4)"
         THEN {<<>>, <<"@">>, <<"1">>, <<"1", "0">>, <<"1", "0", "M">>,
               <<"1", "0", "M", "B">>}
         ELSE {<<>>, <<"1">>, <<"@">>}
    ELSE IF id = "Add Domain" THEN {<<>>, <<"1">>}
    ELSE {<<>>, <<"1">>, <<"@">>}

\* The person at the keyboard either moves through the menus and leaves
\* every other widget as it opened, or fills in the widgets and reaches the
\* menu rows by their digits.
\* The person who adds users reaches the rows that list, add and discard
\* by their digits and types quota texts with a unit.
MenuKeys(p) ==
    IF p = "navigate" THEN AllKeys
    ELSE IF p = "add user" THEN EnterKeys \cup QuitKeys \cup {"1", "4", "5", "8"}
    ELSE AllKeys \ {"KEY_UP", "KEY_DOWN"}

LeafKeys(p) ==
    IF p = "navigate" THEN EnterKeys \cup QuitKeys \cup {"ERR"}
    ELSE IF p = "add user" THEN AllKeys \cup {"0", "M", "B"}
    ELSE AllKeys

Last(s) == s[Len(s)]

ButLast(s) == SubSeq(s, 1, Len(s) - 1)

\* the session as one value: the widgets, the workflow frames, the data, how
\* the UI loop ended (end), and what the step did so far (cb, calls)
Machine ==
    [root |-> rootMenu, sub |-> subMenu, wfs |-> wfs, leaf |-> leaf,
     app |-> appChildren, db |-> dbRows, dbc |-> dbCommitted, bf |-> blockfile,
     scr |-> Body(term),
     end |-> "", cb |-> "", calls |-> {}]

Env(M) == [db |-> M.db, dbc |-> M.dbc, bf |-> M.bf, scr |-> M.scr]

\* a remove() that leaves the child set as it is
RemoveChildKeeps(M, which, id) == M

\* parent.add(child) / parent.remove(child), parent being the menu named which
AddChild(M, which, id) ==
    IF which = "root" THEN [M EXCEPT !.root.children = @ \cup {id}]
    ELSE [M EXCEPT !.sub.children = @ \cup {id}]

RemoveChild(M, which, id) ==
    IF which = "root" THEN [M EXCEPT !.root.children = @ \ {id}]
    ELSE [M EXCEPT !.sub.children = @ \ {id}]

RECURSIVE Settle(_, _, _)
\* The frame f, called by the menu f.parent, has run to the outcome o.
\*  open:   f waits in the run() of the widget, which registers with f.parent;
\*          when the widget's first draw raises curses.error, the error
\*          leaves every run() in progress
\*  menu:   f waits in the run() of the nested menu, registered with the root
\*  return: Menu.run of f.parent goes on: a true value leaves its loop, and
\*          then the menu deregisters and its own caller goes on
\*  raise:  the error leaves every run() in progress; nothing is deregistered
Settle(M, f, o) ==
    LET D == [M EXCEPT !.db = o.db, !.dbc = o.dbc, !.bf = o.bf,
                       !.calls = @ \cup o.calls]
    IN  CASE o.kind = "open" ->
               AddChild([D EXCEPT !.wfs = Append(@, [f EXCEPT !.pc = o.pc,
                                                              !.loc = o.loc]),
                                  !.leaf = o.leaf,
                                  !.end = IF o.leaf.kind = "Select"
                                             /\ ~Select_draw(o.leaf).ok
                                          THEN "error" ELSE @],
                        f.parent, o.leaf.id)
          [] o.kind = "menu" ->
               AddChild([D EXCEPT !.wfs = Append(@, [f EXCEPT !.pc = o.pc]),
                                  !.sub = o.menu, !.leaf = NoLeaf],
                        "root", o.menu.id)
          [] o.kind = "return" ->
               IF ~Truthy(o.value) THEN [D EXCEPT !.leaf = NoLeaf]
               ELSE IF f.parent = "root"
               THEN [D EXCEPT !.leaf = NoLeaf, !.app = @ \ {D.root.id},
                              !.end = "normal"]
               ELSE LET caller == Last(D.wfs)
                        E == [RemoveChild(D, "root", D.sub.id)
                                EXCEPT !.leaf = NoLeaf, !.sub = NoMenu,
                                       !.wfs = ButLast(@)]
                    IN  Settle(E, caller,
                               Workflow(caller.cb, caller.args, caller.pc,
                                        caller.loc, None, Env(E), FALSE))
          [] o.kind = "raise" -> [D EXCEPT !.end = "error"]
          [] o.kind = "abort" -> [D EXCEPT !.end = "abort"]

\* one pass of Menu.run of the menu named which, reading key
MenuPress(M, which, key, fail) ==
    LET m == IF which = "root" THEN M.root ELSE M.sub
        r == MenuKey(m, key)
        N == IF which = "root" THEN [M EXCEPT !.root = r.m]
             ELSE [M EXCEPT !.sub = r.m]
        cb == m.items[r.idx + 1].cb
    IN  CASE r.kind = "stay" -> N
          [] r.kind = "break" ->
               Settle(N, [parent |-> which], Return(Env(N), {}, True))
          [] r.kind = "raise" -> [N EXCEPT !.end = "error"]
          [] r.kind = "call" ->
               Settle([N EXCEPT !.cb = cb],
                      [cb |-> cb, args |-> m.args, pc |-> "start",
                       loc |-> NoLoc, parent |-> which],
                      Workflow(cb, m.args, "start", NoLoc, None, Env(N), fail))

\* a run loop of a leaf widget whose key reaches the root menu as well
LeafPressSharesKey(M, key, fail) ==
    LET r == LeafKey(M.leaf, key)
        f == Last(M.wfs)
        N == [M EXCEPT !.root = IF key \in {"KEY_UP", "KEY_DOWN"}
                                THEN MenuKey(@, key).m ELSE @]
    IN  IF ~r.done THEN [N EXCEPT !.leaf = r.w]
        ELSE Settle([RemoveChild(N, f.parent, N.leaf.id)
                       EXCEPT !.wfs = ButLast(@), !.leaf = NoLeaf],
                    f, Workflow(f.cb, f.args, f.pc, f.loc, r.ret, Env(N), fail))

\* one pass of the run loop of the leaf widget, reading key
LeafPress(M, key, fail) ==
    LET r == LeafKey(M.leaf, key)
        f == Last(M.wfs)
    IN  IF ~r.done THEN [M EXCEPT !.leaf = r.w]
        ELSE Settle([RemoveChild(M, f.parent, M.leaf.id)
                       EXCEPT !.wfs = ButLast(@), !.leaf = NoLeaf],
                    f, Workflow(f.cb, f.args, f.pc, f.loc, r.ret, Env(M), fail))

\* a main() that closes the connection without a commit
mainNeverCommits(end) ==
    CASE end = "normal" -> [log |-> <<"cursor.close", "close">>, status |-> 0]
      [] end \in {"error", "interrupt"} ->
           [log |-> <<"cursor.close", "rollback", "close">>, status |-> 1]
      [] end = "abort" -> [log |-> <<>>, status |-> 134]

\* a main() that commits however the UI loop ended
mainCommitsAlways(end) ==
    IF end = "abort" THEN [log |-> <<>>, status |-> 134]
    ELSE [log |-> <<"cursor.close", "commit", "close">>, status |-> 0]

\* what main() does once curses.wrapper(main_app) has returned or raised:
\* the calls on the connection and the exit status.  os.abort() ends the
\* process at once.
main(end) ==
    CASE end = "normal" ->
           [log |-> <<"cursor.close", "commit", "close">>, status |-> 0]
      [] end \in {"error", "interrupt"} ->
           [log |-> <<"cursor.close", "rollback", "close">>, status |-> 1]
      [] end = "abort" -> [log |-> <<>>, status |-> 134]

\* the step ends with the session as M; e: the key read and the value a
\* leaf run() returned
Becomes(M, e, t) ==
    /\ appChildren' = M.app
    /\ rootMenu' = M.root
    /\ subMenu' = M.sub
    /\ wfs' = M.wfs
    /\ leaf' = M.leaf
    /\ blockfile' = M.bf
    /\ ev' = [e EXCEPT !.cb = M.cb, !.calls = M.calls, !.end = M.end]
    /\ term' = t
    /\ UNCHANGED <<keylog, profile>>
    /\ IF M.end = ""
       THEN /\ dbRows' = M.db
            /\ dbCommitted' = M.dbc
            /\ UNCHANGED <<phase, exitStatus, mainlog>>
       ELSE /\ phase' = "exited"
            /\ exitStatus' = main(M.end).status
            /\ mainlog' = main(M.end).log
            /\ dbRows' = IF M.end = "normal" THEN M.db ELSE M.dbc
            /\ dbCommitted' = IF M.end = "normal" THEN M.db ELSE M.dbc

Event(ret) == [ret |-> ret, cb |-> "", calls |-> {}, end |-> ""]

\* the widget that is reading keys
Reader ==
    IF leaf.kind # "None" THEN leaf
    ELSE IF subMenu.kind # "None" THEN subMenu
    ELSE rootMenu

\* a pass of the run loop of the leaf widget, which is of the given kind.
\* fail: a data-access call made in this pass raises MySQLdb.Error
LeafRun(kind) ==
    /\ phase = "running"
    /\ \E key \in LeafKeys(profile), fail \in BOOLEAN :
          LET M == LeafPress(Machine, key, fail)
              r == LeafKey(leaf, key)
          IN  /\ kind = "SingleInput" /\ isgraph(key) /\ leaf.input_active =>
                   Append(leaf.input_string, key) \in AppTexts(leaf.id)
              /\ fail => M.end = "error"
              /\ Becomes(M, Event(IF r.done THEN r.ret ELSE Running), term)

NoteRun == leaf.kind = "Note" /\ LeafRun("Note")

ConfirmRun == leaf.kind = "Confirm" /\ LeafRun("Confirm")

SelectRun == leaf.kind = "Select" /\ LeafRun("Select")

SingleInputRun == leaf.kind = "SingleInput" /\ LeafRun("SingleInput")

InfoRun == leaf.kind = "Info" /\ LeafRun("Info")

\* a pass of Menu.run of the root menu (which = "root") or the nested menu
MenuRun(which) ==
    /\ phase = "running"
    /\ leaf.kind = "None"
    /\ \E key \in MenuKeys(profile), fail \in BOOLEAN :
          LET M == MenuPress(Machine, which, key, fail)
          IN  /\ fail => M.end = "error"
              /\ Becomes(M, Event(Running), term)

RootMenuRun == subMenu.kind = "None" /\ MenuRun("root")

SubMenuRun == subMenu.kind # "None" /\ MenuRun("sub")

\* KeyboardInterrupt raised in the getch() of the widget reading keys
Interrupt ==
    /\ phase = "running"
    /\ Becomes([Machine EXCEPT !.end = "interrupt"], Event(Running), term)

-----------------------------------------------------------------------------
(* Terminal resize *)

LeafResize(w, scr) ==
    IF w.kind = "SingleInput"
    THEN [w EXCEPT !.lines = scr.lines, !.cols = scr.cols,
                   !.input_size = scr.cols - 9]
    ELSE [w EXCEPT !.lines = scr.lines, !.cols = scr.cols]

\* Menu.resize of the nested menu: its window, then its registered children
SubMenuResize(M, scr) ==
    [M EXCEPT !.sub.lines = scr.lines, !.sub.cols = scr.cols,
              !.leaf = IF M.leaf.kind # "None" /\ M.leaf.id \in M.sub.children
                       THEN LeafResize(@, scr) ELSE @]

\* a Menu.resize that resizes its own window only
RootMenuResizeWindowOnly(M, scr) ==
    [M EXCEPT !.root.lines = scr.lines, !.root.cols = scr.cols]

\* Menu.resize of the root menu
RootMenuResize(M, scr) ==
    LET N == [M EXCEPT !.root.lines = scr.lines, !.root.cols = scr.cols,
                       !.leaf = IF M.leaf.kind # "None"
                                   /\ M.leaf.id \in M.root.children
                                THEN LeafResize(@, scr) ELSE @]
    IN  IF N.sub.kind # "None" /\ N.sub.id \in N.root.children
        THEN SubMenuResize(N, scr) ELSE N

\* MainApp.resize(lines, cols): the three surfaces, then the children
MainAppResize(M, t) ==
    IF M.root.id \in M.app THEN RootMenuResize(M, Body(t)) ELSE M

\* MainApp.draw(): every registered widget is drawn
MainAppDraw(M) ==
    IF /\ M.root.id \in M.app
       /\ M.leaf.kind # "None"
       /\ \/ M.leaf.id \in M.root.children
          \/ M.sub.kind # "None" /\ M.sub.id \in M.root.children
                                 /\ M.leaf.id \in M.sub.children
    THEN [M EXCEPT !.leaf = LeafDraw(@)]
    ELSE M

\* a draw pass in which a manager draws its children before its own content
DrawnChildrenFirst(M) ==
    LET OfLeaf(ids) == IF M.leaf.kind # "None" /\ M.leaf.id \in ids
                       THEN <<M.leaf.id>> ELSE <<>>
        OfSub == IF M.sub.kind # "None" /\ M.sub.id \in M.root.children
                 THEN OfLeaf(M.sub.children) \o <<M.sub.id>> ELSE <<>>
        OfRoot == IF M.root.id \in M.app
                  THEN OfSub \o OfLeaf(M.root.children) \o <<M.root.id>>
                  ELSE <<>>
    IN  OfRoot \o <<"MAINAPP">>

\* The surfaces one MainApp.draw() draws, in order.  MainApp.draw writes the
\* header, the body and the footer and then draws its children; Menu.draw
\* writes the title and the rows and then draws its children; a leaf widget
\* draws itself.
Drawn(M) ==
    LET OfLeaf(ids) == IF M.leaf.kind # "None" /\ M.leaf.id \in ids
                       THEN <<M.leaf.id>> ELSE <<>>
        OfSub == IF M.sub.kind # "None" /\ M.sub.id \in M.root.children
                 THEN <<M.sub.id>> \o OfLeaf(M.sub.children) ELSE <<>>
        OfRoot == IF M.root.id \in M.app
                  THEN <<M.root.id>> \o OfSub \o OfLeaf(M.root.children)
                  ELSE <<>>
    IN  <<"MAINAPP">> \o OfRoot

\* what a resize notification runs, in order: resize_handler, and then the
\* pass of the run loop that the getch() it interrupted starts by returning
\* ERR, up to the getch() that waits for the next key
\* drawn: the surfaces MAINAPP.draw() has drawn in the session M, in order
Handled(M, pass) ==
    Event(Running)
        @@ [trace |-> <<"getheightwidth", "curses.resizeterm", "MAINAPP.resize",
                        "MAINAPP.draw">> \o pass,
            drawn |-> Drawn(M)]

\* a resize notification after which getch() goes on waiting
ResizeRestartsRead ==
    /\ phase = "running"
    /\ \E t \in TermSizes :
          LET H == [MainAppDraw(MainAppResize(Machine, t)) EXCEPT !.scr = Body(t)]
          IN  Becomes(H, Handled(H, <<>>), t)

\* resize_handler: SIGWINCH while a getch() waits.  The handler runs, the
\* getch() returns ERR, and the widget that called it goes through its loop
\* once more: no branch takes ERR, it draws, commits and reads again.
Resize ==
    /\ phase = "running"
    /\ \E t \in TermSizes :
          LET H == [MainAppDraw(MainAppResize(Machine, t)) EXCEPT !.scr = Body(t)]
              M == IF H.leaf.kind # "None" THEN LeafPress(H, "ERR", FALSE)
                   ELSE MenuPress(H, IF H.sub.kind # "None" THEN "sub" ELSE "root",
                                  "ERR", FALSE)
          IN  Becomes(M, Handled(H, <<"draw", "curses.doupdate", "getch">>), t)

-----------------------------------------------------------------------------
(* The session: main() has connected, MainApp.run() has drawn and the root *)
(* menu waits for its first key.                                           *)

NoRows == [domains |-> {}, users |-> {}, aliases |-> {}]

\* the rows the session finds: a domain with a user and an alias
InitialDomain == [identifier |-> 1, name |-> <<"1">>]

InitialRows ==
    [domains |-> {InitialDomain},
     users   |-> {[identifier |-> 1, domain_id |-> InitialDomain,
                   email |-> <<"1", "@", "1">>, quota |-> Decimal(1, 0)]},
     aliases |-> {[identifier |-> 1, domain_id |-> InitialDomain,
                   source |-> <<"1", "@", "1">>, destination |-> <<"@">>]}]

\* the blocklist file the session finds
InitialFile ==
    [exists |-> TRUE,
     lines |-> << [kind |-> "comment"],
                  [kind |-> "rec", addr |-> <<"1">>, act |-> "OK"],
                  RejectLine(<<"@">>),
                  [kind |-> "blank"] >>]

InitialTerm == [lines |-> 25, cols |-> 80]

Started ==
    /\ phase = "running"
    /\ term = InitialTerm
    /\ rootMenu = [MenuInit("Overview", Body(InitialTerm), "Overview", <<>>,
                            RootItems, None) EXCEPT !.children = {}]
    /\ appChildren = {"Overview"}
    /\ subMenu = NoMenu
    /\ wfs = <<>>
    /\ leaf = NoLeaf
    /\ dbRows = InitialRows
    /\ dbCommitted = InitialRows
    /\ blockfile = InitialFile
    /\ exitStatus = -1
    /\ mainlog = <<>>
    /\ ev = Event(Running)
    /\ keylog = <<>>

Init == Started /\ profile \in {"navigate", "edit"}

Next ==
    \/ RootMenuRun
    \/ SubMenuRun
    \/ NoteRun
    \/ ConfirmRun
    \/ SelectRun
    \/ SingleInputRun
    \/ InfoRun
    \/ Interrupt
    \/ Resize

Spec == Init /\ [][Next]_vars

\* the session of a person who adds users
InitAddUser == Started /\ profile = "add user"

SpecAddUser == InitAddUser /\ [][Next]_vars

-----------------------------------------------------------------------------
(* A leaf widget run on its own: the caller constructs it with a parent    *)
(* whose child set is appChildren and calls run(), which has registered    *)
(* the widget and waits for its first key.                                 *)

KeyEvent(key, ret) == [key |-> key, ret |-> ret]

\* the payloads of the n entries of a Select that is run on its own
AloneWidgets ==
    LET scr == Body(InitialTerm) IN
    {NoteInit("Note", scr), ConfirmInit("Confirm", scr, "no", "yes")}
    \cup {SelectInit("Select", scr, [i \in 1..n |-> Obj(i)]) : n \in 0..MaxItems}
    \cup {SingleInputInit("SingleInput", scr, v) : v \in BOOLEAN}
    \cup {InfoInit("Info", scr, nl) : nl \in 0..MaxInfoLines}

InitWidget ==
    /\ term = InitialTerm
    /\ leaf \in AloneWidgets
    /\ phase = IF leaf.kind = "Select" /\ ~Select_draw(leaf).ok
               THEN "draw raised" ELSE "widget"
    /\ appChildren = {leaf.id}
    /\ rootMenu = NoMenu
    /\ subMenu = NoMenu
    /\ wfs = <<>>
    /\ dbRows = NoRows
    /\ dbCommitted = NoRows
    /\ blockfile = InitialFile
    /\ exitStatus = -1
    /\ mainlog = <<>>
    /\ ev = KeyEvent("", Running)
    /\ keylog = <<>>
    /\ profile = "edit"

\* one pass of the widget's run loop; when the loop is left the widget
\* deregisters and run() returns
WidgetRun ==
    /\ phase = "widget"
    /\ \E key \in IF leaf.kind = "SingleInput"
                  THEN EnterKeys \cup BackspaceKeys
                       \cup {"KEY_UP", "KEY_DOWN", "a", "q", "ERR"}
                  ELSE AllKeys :
          LET r == LeafKey(leaf, key)
          IN  /\ (leaf.kind = "SingleInput" /\ Len(keylog) >= MaxKeys)
                     => (key \in EnterKeys)
              /\ leaf' = r.w
              /\ ev' = KeyEvent(key, IF r.done THEN r.ret ELSE Running)
              /\ phase' = IF r.done THEN "returned" ELSE "widget"
              /\ appChildren' = IF r.done THEN appChildren \ {leaf.id}
                                ELSE appChildren
              /\ keylog' = IF leaf.kind = "SingleInput"
                           THEN Append(keylog, key) ELSE keylog
    /\ UNCHANGED <<term, rootMenu, subMenu, wfs, dbRows, dbCommitted,
                   blockfile, exitStatus, mainlog, profile>>

SpecWidget == InitWidget /\ [][WidgetRun]_vars

\* the same with Enter delivered in the end to a widget that is reading
SpecWidgetLive == SpecWidget /\ WF_vars(WidgetRun /\ ev'.key \in EnterKeys)

\* the widget's resize(lines, cols) and draw(), as its parent calls them
WidgetResize ==
    /\ phase = "widget"
    /\ \E t \in TermSizes :
          /\ term' = t
          /\ leaf' = LeafDraw(LeafResize(leaf, Body(t)))
    /\ ev' = KeyEvent("", Running)
    /\ UNCHANGED <<phase, appChildren, rootMenu, subMenu, wfs, dbRows,
                   dbCommitted, blockfile, exitStatus, mainlog, keylog, profile>>

SpecViewport == InitWidget /\ [][WidgetRun \/ WidgetResize]_vars

-----------------------------------------------------------------------------
(* A Menu run on its own: built from n real items whose callback is a stub *)
(* that returns a false or a true value.                                   *)

StubItems(n) == [i \in 1..n |-> MenuRow("item", "callback")]

MenuEvent(key, idx, cb, do_exit) ==
    [key |-> key, idx |-> idx, cb |-> cb, do_exit |-> do_exit]

InitMenu ==
    /\ phase = "menu"
    /\ term = InitialTerm
    /\ rootMenu \in
         {MenuInit("Menu", Body(InitialTerm), "Menu", top, StubItems(n), None) :
             top \in {<<>>, <<"Overview">>}, n \in 0..MaxMenuItems}
    /\ appChildren = {rootMenu.id}
    /\ subMenu = NoMenu
    /\ leaf = NoLeaf
    /\ wfs = <<>>
    /\ dbRows = NoRows
    /\ dbCommitted = NoRows
    /\ blockfile = InitialFile
    /\ exitStatus = -1
    /\ mainlog = <<>>
    /\ ev = MenuEvent("", -1, "", FALSE)
    /\ keylog = <<>>
    /\ profile = "edit"

\* one pass of Menu.run; do_exit: what the callback returns, if one is called
AloneMenuRun ==
    /\ phase = "menu"
    /\ \E key \in AllKeys, do_exit \in BOOLEAN :
          LET r == MenuKey(rootMenu, key)
              cb == IF r.kind = "call" THEN rootMenu.items[r.idx + 1].cb ELSE ""
          IN  /\ do_exit => r.kind = "call"
              /\ rootMenu' = r.m
              /\ ev' = MenuEvent(key, r.idx, cb, do_exit)
              /\ phase' = CASE r.kind = "stay" -> "menu"
                            [] r.kind = "break" -> "returned"
                            [] r.kind = "raise" -> "raised"
                            [] r.kind = "call" ->
                                 IF cb = "os.abort" THEN "aborted"
                                 ELSE IF do_exit THEN "returned" ELSE "menu"
              /\ appChildren' = IF phase' = "returned" THEN {} ELSE appChildren
    /\ UNCHANGED <<term, subMenu, leaf, wfs, dbRows, dbCommitted, blockfile,
                   exitStatus, mainlog, keylog, profile>>

SpecMenu == InitMenu /\ [][AloneMenuRun]_vars

-----------------------------------------------------------------------------
(* A Menu run on its own whose window is resized: Menu.resize(lines, cols) *)
(* and then Menu.draw(), as MainApp.resize and MainApp.draw call them.     *)

\* len() of the texts of a Menu run on its own
len(text) ==
    CASE text = "item" -> 4
      [] text = "Menu" -> 4
      [] text = "Overview" -> 8
      [] text = "Return to <parent>" -> 18
      [] text = "Exit and Save Changes" -> 21

\* Menu.draw() returns: the title and each row '%d. %s' were written
Menu_draw(m) ==
    /\ addstr(m, 1, 10,
              IF Len(m.full_title) = 2
              THEN len(m.full_title[1]) + 4 + len(m.full_title[2])
              ELSE len(m.full_title[1]))
    /\ \A index \in 0..(Len(m.items) - 1) :
          addstr(m, index + 3, 1,
                 Len(DigitsOf(index + 1)) + 2 + len(m.items[index + 1].label))

\* The window is given the body of 25 x 80 or of 40 x 120, or a body that
\* is too low or too narrow for a menu
AloneMenuResize ==
    /\ phase = "menu"
    /\ \E scr \in {Body(InitialTerm), Body([lines |-> 40, cols |-> 120]),
                   Body([lines |-> 12, cols |-> 80]),
                   Body([lines |-> 25, cols |-> 24])} :
          LET m == [rootMenu EXCEPT !.lines = scr.lines, !.cols = scr.cols]
          IN  /\ rootMenu' = m
              /\ phase' = IF Menu_draw(m) THEN "menu" ELSE "draw raised"
    /\ ev' = MenuEvent("", -1, "", FALSE)
    /\ UNCHANGED <<term, appChildren, subMenu, leaf, wfs, dbRows, dbCommitted,
                   blockfile, exitStatus, mainlog, keylog, profile>>

SpecSurface == InitMenu /\ [][AloneMenuRun \/ AloneMenuResize]_vars

-----------------------------------------------------------------------------
(* parse_quota and format_quota on their own: a quota text is parsed and   *)
(* the amount, unless parse_quota raised ValueError, is formatted.         *)

\* longest quota text that is made of any characters
MaxQuotaLen == 2

RECURSIVE Texts(_, _)
\* the texts of at most n characters of Chars
Texts(Chars, n) ==
    IF n = 0 THEN {<<>>}
    ELSE LET shorter == Texts(Chars, n - 1)
         IN  shorter \cup {Append(t, c) : t \in shorter, c \in Chars}

\* the quota texts of the model: texts of a number, a unit in either case,
\* or neither, and every short text of digits, points, commas, blanks,
\* letters and an at sign
QuotaTexts ==
    { <<"0">>, <<"5", "0", "0">>, <<"1", "0", "K", "B">>,
      <<"2", ".", "5", "M", "B">>, <<"1", "G", "B">>,
      <<"1", "0", "k", "b">>, <<"2", ".", "5", "m", "B">>, <<"1", "G", "b">>,
      <<"1", "0", " ", "K", "B">>, <<"1", "0", "X", "B">>, <<"a", "b", "c">>,
      <<"1", "0", "K", "B", "x">>, <<"1", "0", "K", "B", "@">>,
      <<"1", ".", "2", ".", "3">>, <<"0", ".", "0", "0", "4">> }
    \cup Texts({"0", "1", ".", ",", " ", "k", "B", "x", "@"}, MaxQuotaLen)

InitQuota ==
    /\ phase = "quota text"
    /\ keylog \in QuotaTexts
    /\ ev = [result |-> QuotaError(""), shown |-> <<>>]
    /\ term = InitialTerm
    /\ appChildren = {}
    /\ rootMenu = NoMenu
    /\ subMenu = NoMenu
    /\ leaf = NoLeaf
    /\ wfs = <<>>
    /\ dbRows = NoRows
    /\ dbCommitted = NoRows
    /\ blockfile = InitialFile
    /\ exitStatus = -1
    /\ mainlog = <<>>
    /\ profile = "edit"

\* parse_quota(quota_raw) returns the amount or raises ValueError
ParseQuota ==
    /\ phase = "quota text"
    /\ ev' = [ev EXCEPT !.result = parse_quota(keylog)]
    /\ phase' = IF ev'.result.ok THEN "parsed" ELSE "ValueError"
    /\ UNCHANGED <<term, appChildren, rootMenu, subMenu, leaf, wfs, dbRows,
                   dbCommitted, blockfile, exitStatus, mainlog, keylog, profile>>

\* format_quota(quota) of the amount parsed
FormatQuota ==
    /\ phase = "parsed"
    /\ ev' = [ev EXCEPT !.shown = format_quota(ev.result.quota)]
    /\ phase' = "shown"
    /\ UNCHANGED <<term, appChildren, rootMenu, subMenu, leaf, wfs, dbRows,
                   dbCommitted, blockfile, exitStatus, mainlog, keylog, profile>>

SpecQuota == InitQuota /\ [][ParseQuota \/ FormatQuota]_vars


-----------------------------------------------------------------------------
(* Properties *)

Live(w) == w.kind # "None"

\* C1: a widget is in its parent's child set from the start of run() until
\* run() ends, and once run() has ended, by whatever path (here: the UI loop
\* ended normally or by an error raised in a workflow callback), no widget
\* is left in a child set.
C1_RegistrationLifecycle ==
    /\ phase = "running" =>
         /\ appChildren = {rootMenu.id}
         /\ Live(subMenu) => subMenu.id \in rootMenu.children
         /\ Live(leaf) =>
              leaf.id \in (IF Last(wfs).parent = "root" THEN rootMenu
                           ELSE subMenu).children
    /\ phase = "exited" /\ ev.end \in {"normal", "error"} =>
         /\ appChildren = {}
         /\ rootMenu.children = {}
         /\ subMenu.children = {}

\* the UI loop has ended by an error of the database and the root menu is
\* still a child of MainApp
C1_LeftRegistered ==
    /\ phase = "exited"
    /\ ev.end = "error"
    /\ rootMenu.id \in appChildren

ExitRow(m) == m.items[Len(m.items)]

\* the step activates the exit row of the menu: Enter while it is
\* highlighted, or its digit
ActivatesExit ==
    /\ phase = "menu"
    /\ \/ ev'.key \in EnterKeys /\ rootMenu.position = Len(rootMenu.items) - 1
       \/ ev'.key \in Digits /\ Ord(ev'.key) - 48 = Len(rootMenu.items)

C2_Rows ==
    /\ \E n \in 0..MaxMenuItems :
          /\ Len(rootMenu.items) = n + 1
          /\ SubSeq(rootMenu.items, 1, n) = StubItems(n)
    /\ ExitRow(rootMenu).cb = "os.abort"
    /\ ev.cb # "os.abort"
    /\ phase # "aborted"

\* C2: a Menu built from N real items has N+1 rows, the last one the exit
\* row; activating the exit row, by Enter while it is highlighted or by its
\* digit, ends the run loop, and no callback is called: the placeholder of
\* the exit row is never called.
C2_ExitRow ==
    /\ []C2_Rows
    /\ [][ActivatesExit => phase' = "returned" /\ ev'.cb = ""]_vars

C2_ExitByEnter ==
    /\ phase = "returned"
    /\ ev.key \in EnterKeys
    /\ rootMenu.position = Len(rootMenu.items) - 1
    /\ Len(rootMenu.items) = 3
    /\ ev.cb = ""

C3_InRange ==
    leaf.kind = "Select" =>
        leaf.position >= 0 /\ leaf.position <= Len(leaf.items) - 1

C3_NoWrap ==
    leaf.kind = "Select" /\ phase = "widget" =>
        /\ ev'.key \in {"KEY_UP", "KEY_PPAGE"} =>
             leaf'.position <= leaf.position
        /\ ev'.key \in {"KEY_DOWN", "KEY_NPAGE"} =>
             leaf'.position >= leaf.position

\* C3: whatever Up, Down, PageUp and PageDown keys a running Select is
\* given, its highlighted index stays within 0 .. itemCount-1, the return
\* entry counted, and no key wraps it around: Up and PageUp never raise it,
\* Down and PageDown never lower it.
C3_SelectorHighlight == []C3_InRange /\ [][C3_NoWrap]_vars

\* PageDown has been stopped at the return entry of a short list
C3_Clamped ==
    /\ leaf.kind = "Select"
    /\ ev.key = "KEY_NPAGE"
    /\ Len(leaf.items) = 4
    /\ leaf.position = 3

RECURSIVE Replay(_)
\* the buffer after the keys, replayed from left to right: a character
\* appends itself, Backspace removes one trailing character if there is one
Replay(keys) ==
    IF keys = <<>> THEN <<>>
    ELSE LET buffer == Replay(SubSeq(keys, 1, Len(keys) - 1))
             key == keys[Len(keys)]
         IN  IF key \in BackspaceKeys
             THEN IF buffer = <<>> THEN <<>>
                  ELSE SubSeq(buffer, 1, Len(buffer) - 1)
             ELSE Append(buffer, key)

\* C4: after any sequence of printable characters and Backspaces given to a
\* SingleInput whose input field has the focus, the buffer is the replay of
\* the sequence.
C4_BufferIsReplay ==
    /\ leaf.kind = "SingleInput"
    /\ \A i \in 1..Len(keylog) : isgraph(keylog[i]) \/ keylog[i] \in BackspaceKeys
    => leaf.input_string = Replay(keylog)

C4_BackspaceOnEmpty ==
    /\ leaf.kind = "SingleInput"
    /\ keylog = <<"a", "KEY_BACKSPACE", "BS", "q">>
    /\ leaf.input_string = <<"q">>

RECURSIVE InputFocused(_)
\* the input field has the focus after the keys: Down gives it to the
\* cancel row, Up gives it back
InputFocused(keys) ==
    IF keys = <<>> THEN TRUE
    ELSE IF keys[Len(keys)] = "KEY_UP" THEN TRUE
    ELSE IF keys[Len(keys)] = "KEY_DOWN" THEN FALSE
    ELSE InputFocused(SubSeq(keys, 1, Len(keys) - 1))

\* C5: Enter ends run(), which returns the buffer if the input field has
\* the focus and None if the cancel row has it: an empty buffer gives the
\* empty string, which is not None, and a buffer that is not empty still
\* gives None when the cancel row has the focus.
C5_CommitResult ==
    /\ Str(<<>>) # None
    /\ leaf.kind = "SingleInput" /\ phase = "returned" =>
         /\ ev.key \in EnterKeys
         /\ ev.ret = IF InputFocused(keylog) THEN Str(leaf.input_string)
                     ELSE None

C5_CancelledWithText ==
    /\ leaf.kind = "SingleInput"
    /\ phase = "returned"
    /\ leaf.input_string # <<>>
    /\ ev.ret = None

\* C6: a Confirm starts with option A highlighted; Enter returns OPTA if A
\* is highlighted and OPTB if B is; q and Q return NoDecision whatever is
\* highlighted; the three values differ and run() returns no other.
C6_ConfirmResult ==
    /\ OPTA # OPTB /\ OPTA # OPTNONE /\ OPTB # OPTNONE
    /\ leaf.kind = "Confirm" =>
         /\ ev.key = "" => leaf.opta_active
         /\ phase = "returned" =>
              \/ /\ ev.key \in EnterKeys
                 /\ ev.ret = IF leaf.opta_active THEN OPTA ELSE OPTB
              \/ ev.key \in QuitKeys /\ ev.ret = OPTNONE

C6_QuitOnB ==
    /\ leaf.kind = "Confirm"
    /\ phase = "returned"
    /\ ~leaf.opta_active
    /\ ev.ret = OPTNONE

Destructive ==
    {"db_delete_user", "db_delete_alias", "db_delete_domain",
     "remove_blocked_entry", "commit", "rollback"}

C8_OnlyAfterB ==
    /\ leaf.kind = "Confirm" =>
         /\ leaf.opta_text = "no" /\ leaf.optb_text = "yes"
         /\ profile = "navigate" => leaf.opta_active
    /\ ev.calls \cap Destructive # {} => ev.ret = OPTB

C8_NothingOtherwise ==
    ev'.ret \in {OPTA, OPTNONE} =>
        /\ ev'.calls = {}
        /\ UNCHANGED <<dbRows, dbCommitted, blockfile>>

\* C8: the deletion of a user, an alias or a domain, the removal of a
\* blocklist entry, and the commit and rollback of 'Save changes' and
\* 'Discard changes' are made only if the Confirm of the workflow returned
\* OPTB; at every call site option A, highlighted when the Confirm opens, is
\* 'no', and when OPTA or NoDecision is returned none of the calls is made
\* and the data stay as they are.
C8_ConfirmedOnly == []C8_OnlyAfterB /\ [][C8_NothingOtherwise]_vars

C8_AliasDeleted ==
    /\ ev.ret = OPTB
    /\ ev.calls = {"db_delete_alias"}
    /\ dbRows.aliases = {}
    /\ dbRows.users # {}

\* C9: a true value returned by a callback ends the run loop of the menu
\* that called it before another key is read: right after db_delete_domain
\* the session is back in the root menu, with no nested menu and no
\* workflow in progress, and whenever the menu 'Manage Domain' is reading
\* keys or has called a workflow its domain is a row of the database.
C9_DeletedDomainLeavesSubmenu ==
    /\ "db_delete_domain" \in ev.calls =>
         /\ phase = "running"
         /\ subMenu = NoMenu
         /\ leaf = NoLeaf
         /\ wfs = <<>>
         /\ rootMenu.children = {}
    /\ phase = "running" /\ subMenu.id = "Manage Domain" =>
         subMenu.args \in dbRows.domains

C9_DomainDeleted ==
    /\ "db_delete_domain" \in ev.calls
    /\ subMenu = NoMenu
    /\ dbRows.domains = {}
    /\ Reader = rootMenu

\* C10: when an error of the database or a KeyboardInterrupt ends the UI
\* loop, at whatever depth of menus and widgets, main() calls rollback, does
\* not call commit, and the process ends with a status other than 0; the
\* rows are those of the last commit.
C10_AbnormalEnd ==
    /\ ev.end \in {"error", "interrupt"} =>
         /\ phase = "exited"
         /\ \E i \in 1..Len(mainlog) : mainlog[i] = "rollback"
         /\ \A i \in 1..Len(mainlog) : mainlog[i] # "commit"
         /\ exitStatus # 0
         /\ dbRows = dbCommitted
    /\ phase = "exited" /\ exitStatus = 0 => ev.end = "normal"

\* the error is raised by a workflow called from the nested menu
C10_ErrorInSubmenu ==
    /\ ev.end = "error"
    /\ subMenu.id = "Manage Domain"
    /\ ev.cb = "domain_delete_user_win"
    /\ exitStatus = 1
    /\ mainlog = <<"cursor.close", "rollback", "close">>

C11_Committed ==
    ev.end = "normal" =>
        /\ phase = "exited"
        /\ Cardinality({i \in 1..Len(mainlog) : mainlog[i] = "commit"}) = 1
        /\ \A i \in 1..Len(mainlog) : mainlog[i] # "rollback"
        /\ exitStatus = 0
        /\ rootMenu.id \notin appChildren

C11_StagedRowsKept ==
    ev'.end = "normal" =>
        /\ Reader = rootMenu
        /\ dbCommitted' = dbRows
        /\ dbRows' = dbRows

\* C11: whenever the run loop of the root menu ends without an exception,
\* MainApp.run returns and main() commits the staged changes exactly once
\* and calls no rollback: the rows of the session become the committed rows.
C11_NormalEndCommits == []C11_Committed /\ [][C11_StagedRowsKept]_vars

\* the session ends normally with rows that had been staged, not committed
C11_StagedAtExit ==
    /\ ev.end = "normal"
    /\ dbCommitted.aliases = {}
    /\ dbCommitted.users # {}
    /\ mainlog = <<"cursor.close", "commit", "close">>

\* the Notes that report a validation failure
FailureNotes ==
    {"Add Domain Failed", "Password Changed Failed", "Quota Changed Failed",
     "Add User Failed", "User Add Failed", "Add Alias Failed",
     "Add Blocked Entry Failed"}

FailureNote(w) == w.kind = "Note" /\ w.id \in FailureNotes

\* the session's domain whose menu is open
Managed == subMenu.args

\* the step is the return of a SingleInput with a text that fails the
\* validation of the workflow that asked for it
ValidationFails ==
    /\ phase = "running"
    /\ leaf.kind = "SingleInput"
    /\ ev'.ret # Running
    /\ ev'.end = ""
    /\ LET text == ev'.ret
           typed == text.tag = "str" /\ text.val # <<>>
       IN  \/ /\ leaf.id \in {"Add User (1/4)", "Add Alias (1/2)"}
              /\ typed /\ Contains(text.val, "@")
           \/ /\ leaf.id = "Add Alias (2/2)"
              /\ typed /\ ~Contains(text.val, "@")
           \/ /\ leaf.id \in {"Password (2/2)", "Add User (3/4)"}
              /\ Truthy(Last(wfs).loc.pw1) /\ text # Last(wfs).loc.pw1
           \/ /\ leaf.id \in {"Quota for user", "Add User (4/4)"}
              /\ typed /\ text.val = <<"@">>
           \/ /\ leaf.id = "Add Domain"
              /\ typed /\ \E d \in dbRows.domains : d.name = text.val
           \/ /\ leaf.id = "Add User (1/4)"
              /\ typed
              /\ \E u \in dbRows.users :
                    /\ u.domain_id = Managed
                    /\ u.email = text.val \o At \o Managed.name
           \/ /\ leaf.id = "Add Alias (2/2)"
              /\ typed
              /\ \E a \in dbRows.aliases :
                    /\ a.domain_id = Managed
                    /\ a.source = Last(wfs).loc.source \o At \o Managed.name
                    /\ a.destination = text.val

C12_FailureShowsNote ==
    ValidationFails =>
        /\ FailureNote(leaf')
        /\ ev'.calls = {}
        /\ UNCHANGED <<dbRows, dbCommitted, blockfile>>

C12_NoteChangesNothing ==
    FailureNote(leaf') /\ ~FailureNote(leaf) =>
        /\ phase' = "running"
        /\ ev'.calls = {}
        /\ UNCHANGED <<dbRows, dbCommitted, blockfile>>

\* the Note is dismissed by a key (a KeyboardInterrupt is not a dismissal):
\* the workflow returns to the menu that called it, which reads the next key
C12_BackInMenu ==
    FailureNote(leaf) /\ ~FailureNote(leaf') /\ ev'.end # "interrupt" =>
        /\ phase' = "running"
        /\ ev'.end = ""
        /\ leaf' = NoLeaf
        /\ wfs' = ButLast(wfs)
        /\ Reader' = IF Last(wfs).parent = "sub" THEN subMenu' ELSE rootMenu'
        /\ Reader'.kind = "Menu"
        /\ Reader'.children = {}
        /\ subMenu'.id = subMenu.id
        /\ UNCHANGED <<dbRows, dbCommitted, blockfile>>

\* C12: a validation failure (an '@' in a user name or an alias source, no
\* '@' in an alias destination, two different passwords, a quota text that
\* does not parse, a domain, user or alias that exists already) makes no
\* data-access mutation and shows a Note; when the Note is dismissed the
\* menu that called the workflow reads the next key: the session goes on.
C12_ValidationRecovered ==
    /\ [][C12_FailureShowsNote]_vars
    /\ [][C12_NoteChangesNothing]_vars
    /\ [][C12_BackInMenu]_vars

\* a quota text that does not parse has been dismissed with its Note
C12_QuotaRefused ==
    /\ phase = "running"
    /\ leaf.kind = "Note"
    /\ leaf.id = "Quota Changed Failed"
    /\ Reader = leaf

\* the data-access calls that create, update or delete, and the blocklist's
Mutators ==
    {"db_create_domain", "db_create_user", "db_create_alias",
     "db_update_password", "db_update_quota",
     "db_delete_domain", "db_delete_user", "db_delete_alias",
     "add_blocked_entry", "remove_blocked_entry", "postmap"}

\* the result with which a widget reports that the user gave it up
Cancellation(w, ret) ==
    \/ w.kind \in {"Select", "SingleInput"} /\ ret = None
    \/ w.kind = "Confirm" /\ ret \in {OPTA, OPTNONE}

\* a password prompt of a workflow that has asked for the first password
SecondPassword(w) == w.kind = "SingleInput" /\ w.id \in {"Password (2/2)", "Add User (3/4)"}

\* the step in which a widget is cancelled mutates nothing, and the workflow
\* either ends, or reports with a Note, or (the first password) asks for the
\* second password with the cancellation on record
C13_CancelledStep ==
    phase = "running" /\ ev'.end = "" /\ Cancellation(leaf, ev'.ret) =>
        /\ ev'.calls \cap Mutators = {}
        /\ UNCHANGED <<dbRows, blockfile>>
        /\ \/ leaf' = NoLeaf /\ wfs' = ButLast(wfs)
           \/ leaf'.kind = "Note" /\ Len(wfs') = Len(wfs)
           \/ /\ SecondPassword(leaf')
              /\ Len(wfs') = Len(wfs)
              /\ Last(wfs').loc.pw1 = None

\* a mutation is made by the return of a widget that was not cancelled, in a
\* workflow invocation with no cancelled input on record
C13_MutationUncancelled ==
    ev'.calls \cap Mutators # {} =>
        /\ leaf.kind \in {"Select", "SingleInput", "Confirm"}
        /\ ~Cancellation(leaf, ev'.ret)
        /\ SecondPassword(leaf) => Truthy(Last(wfs).loc.pw1)

\* a Note's dismissal mutates nothing
C13_NoteMutatesNothing ==
    leaf.kind = "Note" /\ ev'.end = "" =>
        /\ ev'.calls \cap Mutators = {}
        /\ UNCHANGED <<dbRows, blockfile>>

\* C13: when a Select returns no selection, a SingleInput returns cancelled or
\* a Confirm returns OPTA or no decision, the workflow invocation that ran the
\* widget makes no create, update or delete call and leaves the blocklist
\* alone, in that step and until it ends.
C13_CancellationMutatesNothing ==
    /\ [][C13_CancelledStep]_vars
    /\ [][C13_MutationUncancelled]_vars
    /\ [][C13_NoteMutatesNothing]_vars

\* the second password is asked after the first one was cancelled
C13_FirstPasswordCancelled ==
    /\ phase = "running"
    /\ SecondPassword(leaf)
    /\ leaf.id = "Password (2/2)"
    /\ Last(wfs).loc.pw1 = None
    /\ ev.ret = None

\* the names of a listing of the domains, in the listing's order
DomainListing(db) ==
    [i \in DOMAIN db_get_domains(db) |-> db_get_domains(db)[i].name]

\* the number of rows of a listing that show a name
Shown(listing, name) ==
    Cardinality({i \in DOMAIN listing : listing[i] = name})

C14_ListedOnce ==
    \A i \in DOMAIN DomainListing(dbRows) :
        Shown(DomainListing(dbRows), DomainListing(dbRows)[i]) = 1

\* the step is the return of 'Add domain's prompt with a text
AddDomainTyped ==
    /\ phase = "running" /\ leaf.kind = "SingleInput" /\ leaf.id = "Add Domain"
    /\ ev'.ret.tag = "str" /\ Truthy(ev'.ret) /\ ev'.end = ""

C14_AddDomainStep ==
    AddDomainTyped =>
    IF Shown(DomainListing(dbRows), ev'.ret.val) = 0
    THEN /\ ev'.calls = {"db_create_domain"}
         /\ Shown(DomainListing(dbRows'), ev'.ret.val) = 1
         /\ Len(DomainListing(dbRows')) = Len(DomainListing(dbRows)) + 1
         /\ leaf'.kind = "Note" /\ leaf'.id = "Add Domain Successful"
    ELSE /\ ev'.calls = {}
         /\ dbRows' = dbRows
         /\ leaf'.kind = "Note" /\ leaf'.id = "Add Domain Failed"

\* C14: 'Add domain' creates the domain when no domain has that name, so that
\* a later listing shows it, and otherwise creates nothing and reports the
\* duplicate; every name of the listing of domains is shown exactly once.
C14_DomainUniqueness == []C14_ListedOnce /\ [][C14_AddDomainStep]_vars

\* a domain was deleted and has been added again: it is listed without the
\* user it had
C14_AddedAgain ==
    /\ phase = "running"
    /\ leaf.kind = "Note" /\ leaf.id = "Add Domain Successful"
    /\ DomainListing(dbRows) = << <<"1">> >>
    /\ dbRows.users = {}
    /\ ev.calls = {"db_create_domain"}

\* the name was typed again and refused
C14_DuplicateRefused ==
    /\ phase = "running"
    /\ leaf.kind = "Note" /\ leaf.id = "Add Domain Failed"
    /\ Shown(DomainListing(dbRows), <<"1">>) = 1

\* the step is the return of the prompt named id with a result
PromptReturns(id) ==
    /\ phase = "running" /\ leaf.kind = "SingleInput" /\ leaf.id = id
    /\ ev'.ret # Running /\ ev'.end = ""

\* the address of the user that the running 'Add user' will create
NewEmail(name) == name \o At \o Last(wfs).args.name

UsableName(text) ==
    IF text.tag # "str" THEN FALSE
    ELSE /\ text.val # <<>>
         /\ ~Contains(text.val, "@")
         /\ \A u \in dbRows.users :
               u.domain_id = Last(wfs).args => u.email # NewEmail(text.val)

C15_Username ==
    PromptReturns("Add User (1/4)") =>
        /\ ev'.calls = {}
        /\ dbRows' = dbRows
        /\ IF UsableName(ev'.ret)
           THEN /\ leaf'.kind = "SingleInput" /\ leaf'.id = "Add User (2/4)"
                /\ Last(wfs').loc.user_name = ev'.ret.val
           ELSE leaf'.kind = "Note" /\ leaf'.id \in FailureNotes

C15_FirstPassword ==
    PromptReturns("Add User (2/4)") =>
        /\ ev'.calls = {}
        /\ dbRows' = dbRows
        /\ leaf'.kind = "SingleInput" /\ leaf'.id = "Add User (3/4)"
        /\ Last(wfs').loc.user_name = Last(wfs).loc.user_name
        /\ Last(wfs').loc.pw1 = ev'.ret

C15_SecondPassword ==
    PromptReturns("Add User (3/4)") =>
        /\ ev'.calls = {}
        /\ dbRows' = dbRows
        /\ IF Truthy(Last(wfs).loc.pw1) /\ ev'.ret = Last(wfs).loc.pw1
           THEN /\ leaf'.kind = "SingleInput" /\ leaf'.id = "Add User (4/4)"
                /\ Last(wfs').loc = Last(wfs).loc
           ELSE leaf'.kind = "Note" /\ leaf'.id = "User Add Failed"

TenMB == <<"1", "0", "M", "B">>

C15_Quota ==
    PromptReturns("Add User (4/4)") =>
        IF ev'.ret.tag = "str" /\ parse_quota(ev'.ret.val).ok
        THEN /\ ev'.calls = {"db_create_user"}
             /\ \E u \in dbRows'.users \ dbRows.users :
                   /\ dbRows'.users = dbRows.users \cup {u}
                   /\ u.email = NewEmail(Last(wfs).loc.user_name)
                   /\ u.domain_id = Last(wfs).args
                   /\ u.quota = parse_quota(ev'.ret.val).quota
                   /\ ev'.ret.val = TenMB =>
                         /\ u.quota = [m |-> 10000000, e |-> 0]
                         /\ format_quota(u.quota)
                              = <<"1", "0", ".", "0", "0", " ", "M", "B">>
             /\ leaf'.kind = "Note" /\ leaf'.id = "User Added Successful"
        ELSE /\ ev'.calls = {}
             /\ dbRows' = dbRows

C15_CreateOnlyThen ==
    "db_create_user" \in ev'.calls =>
        /\ PromptReturns("Add User (4/4)")
        /\ UsableName(Str(Last(wfs).loc.user_name))
        /\ Truthy(Last(wfs).loc.pw1)

\* C15: 'Add user' calls db_create_user exactly when the username is not
\* empty, has no '@' and names no user of the domain, the two password
\* prompts returned the same non-empty text and the quota text parses; the
\* row created has the email '<username>@<domain>' and the parsed quota
\* ("10MB" is stored as 10,000,000 and listed as "10.00 MB"); when the two
\* passwords differ no row is created.
C15_AddUser ==
    /\ [][C15_Username]_vars
    /\ [][C15_FirstPassword]_vars
    /\ [][C15_SecondPassword]_vars
    /\ [][C15_Quota]_vars
    /\ [][C15_CreateOnlyThen]_vars

\* user 'a' was added with the quota text "10MB"
C15_TenMBUser ==
    /\ phase = "running"
    /\ leaf.kind = "Note" /\ leaf.id = "User Added Successful"
    /\ ev.ret = Str(TenMB)
    /\ \E u \in dbRows.users :
          /\ u.email = <<"a", "@", "1">>
          /\ format_quota(u.quota) = <<"1", "0", ".", "0", "0", " ", "M", "B">>

\* two different passwords were refused
C15_PasswordsDiffer ==
    /\ phase = "running"
    /\ profile = "add user"
    /\ leaf.kind = "Note" /\ leaf.id = "User Add Failed"
    /\ ev.ret = Str(<<"@">>)
    /\ Last(wfs).cb = "domain_add_user_win"
    /\ dbRows = InitialRows

\* the widgets whose run() is in progress
InProgress ==
    {w \in {rootMenu, subMenu, leaf} : phase = "running" /\ Live(w)}

SizeOf(w) == [lines |-> w.lines, cols |-> w.cols]

C16_BodySized == \A w \in InProgress : SizeOf(w) = Body(term)

\* a resize notification gives every widget in progress the new body size
C16_ResizeStep ==
    term' # term =>
        /\ \A w \in InProgress' :
              /\ w.lines = term'.lines - 5 - 1
              /\ w.cols = term'.cols - 2 * 2
        /\ {w.id : w \in InProgress'} = {w.id : w \in InProgress}

\* C16: when MainApp.resize(lines, cols) is done, every widget whose run() is
\* in progress (the root menu, a nested menu, the innermost leaf widget) has
\* the size of the body surface, (lines - 5 - 1, cols - 2 * 2).
C16_ResizeReachesAll == []C16_BodySized /\ [][C16_ResizeStep]_vars

\* the terminal has grown while a prompt of a nested menu's workflow waits
C16_NestedResized ==
    /\ phase = "running"
    /\ term = [lines |-> 40, cols |-> 120]
    /\ Live(subMenu)
    /\ leaf.kind = "SingleInput"
    /\ SizeOf(leaf) = [lines |-> 34, cols |-> 116]
    /\ SizeOf(subMenu) = SizeOf(leaf)
    /\ SizeOf(rootMenu) = SizeOf(leaf)
    /\ "trace" \in DOMAIN ev

\* the step handled a resize notification
Notified(e) == "trace" \in DOMAIN e

\* the place of a call in what a step ran (0: not run)
Place(trace, call) ==
    IF \E i \in DOMAIN trace : trace[i] = call
    THEN CHOOSE i \in DOMAIN trace :
            trace[i] = call /\ \A j \in 1..(i - 1) : trace[j] # call
    ELSE 0

Times(trace, call) == Cardinality({i \in DOMAIN trace : trace[i] = call})

\* the dimensions are queried, Application.resize is called with them, one
\* full draw pass is made and committed, and then the key is read
C17_InOrder ==
    Notified(ev) =>
        /\ Place(ev.trace, "getheightwidth") = 1
        /\ Place(ev.trace, "getheightwidth") < Place(ev.trace, "MAINAPP.resize")
        /\ Place(ev.trace, "MAINAPP.resize") < Place(ev.trace, "MAINAPP.draw")
        /\ Place(ev.trace, "MAINAPP.draw") < Place(ev.trace, "curses.doupdate")
        /\ Place(ev.trace, "curses.doupdate") < Place(ev.trace, "getch")
        /\ Place(ev.trace, "getch") = Len(ev.trace)
        /\ \A c \in {"getheightwidth", "MAINAPP.resize", "MAINAPP.draw",
                     "curses.doupdate", "getch"} : Times(ev.trace, c) = 1

\* the notification is one step: the widgets take the size queried and are
\* drawn, and nothing else happens to the session; the widget that was
\* reading reads the next key
C17_OneStep ==
    Notified(ev') =>
        /\ term' \in TermSizes
        /\ \A w \in InProgress' : SizeOf(w) = Body(term')
        /\ Live(leaf) => leaf' = LeafDraw(LeafResize(leaf, Body(term')))
        /\ Reader'.id = Reader.id
        /\ rootMenu'.position = rootMenu.position
        /\ Live(subMenu) => subMenu'.position = subMenu.position
        /\ ev'.ret = Running /\ ev'.calls = {} /\ ev'.end = ""
        /\ UNCHANGED <<phase, appChildren, wfs, dbRows, dbCommitted, blockfile,
                       exitStatus, mainlog>>

\* the terminal's size is taken from a notification only
C17_SizeByHandler == term' # term => Notified(ev')

C18_DrawsNeverFail == phase # "draw raised"

\* a menu of five rows was given a window of six lines
C18_ShrunkBelowRows ==
    /\ phase = "draw raised"
    /\ Len(rootMenu.items) = 5
    /\ SizeOf(rootMenu) = [lines |-> 6, cols |-> 76]

\* the draw of the Select wrote every entry and shows the highlighted one
Shows(w) ==
    /\ Select_draw(w).ok
    /\ Select_draw(w).first <= Select_draw(w).row
    /\ Select_draw(w).row <= Select_draw(w).last

\* C19: on every draw of a Select, with the height of the window as it is at
\* that draw (so also at the first draw after a resize), the row of the
\* highlighted entry is among the rows shown; after a resize every entry,
\* the return entry included, can still be highlighted and shown by Down
\* and Page Down.
C19_ViewportFollows == leaf.kind = "Select" => Shows(leaf)

\* a Select that was given no entries: its first draw raised
C19_NoEntries ==
    /\ phase = "draw raised"
    /\ leaf.kind = "Select"
    /\ leaf.items = <<None>>
    /\ leaf.pad.lines = 5
    /\ Select_draw(leaf).row = 5

\* a Select that has drawn once shows its highlighted entry at every draw
C19_ShownOnceDrawn ==
    leaf.kind = "Select" /\ phase \in {"widget", "returned"} => Shows(leaf)

\* the return entry of a long Select, below the window before the resize,
\* is highlighted and shown
C19_ReturnEntryShown ==
    /\ phase = "widget"
    /\ leaf.kind = "Select"
    /\ Len(leaf.items) = MaxItems + 1
    /\ leaf.position = MaxItems
    /\ term = [lines |-> 40, cols |-> 120]
    /\ Select_draw(leaf).first = 0
    /\ Select_draw(leaf).row = MaxItems + 4

\* the largest offset the claim allows an Info: content rows less the
\* height of the window, plus 4, and not less than 0
TopOffset(w) ==
    IF InfoDrawnSize(w.nl) - w.lines + 4 > 0
    THEN InfoDrawnSize(w.nl) - w.lines + 4
    ELSE 0

\* C20: at every draw of an Info, after any keys Up, Down, Page Up and Page
\* Down and any resizes, the scroll offset is at least 0 and at most
\* max(0, content rows - window height + 4), also when the content is
\* shorter than the window and when a resize has made the window higher
\* since the last navigation key.
C20_OffsetBounds ==
    leaf.kind = "Info" => leaf.pos >= 0 /\ leaf.pos <= TopOffset(leaf)

\* a navigation key in an Info whose content is shorter than its window
C20_NegativeOffset ==
    /\ phase = "widget"
    /\ leaf.kind = "Info"
    /\ leaf.nl = 0
    /\ ev.key = "KEY_DOWN"
    /\ leaf.pos = 4 - 19 + 4

\* an Info scrolled to its end whose window was then made higher
C20_StaleOffset ==
    /\ phase = "widget"
    /\ leaf.kind = "Info"
    /\ leaf.nl = MaxInfoLines
    /\ leaf.lines = 34
    /\ leaf.pos = (MaxInfoLines + 4) - 19 + 4
    /\ TopOffset(leaf) = 0


\* the widgets whose run() is in progress, outermost first
Chain == SelectSeq(<<rootMenu, subMenu, leaf>>, Live)

\* the widget waits in getch(): its run() is in progress and it has started
\* no run() that has not ended
Blocked(w) == w.kind = "Menu" => w.children = {}

C21_OneReader ==
    phase = "running" =>
        /\ Chain # <<>>
        /\ \A i \in 1..Len(Chain) : Blocked(Chain[i]) <=> i = Len(Chain)
        /\ Reader = Last(Chain)

Highlight(m) == [position |-> m.position, items |-> m.items]

C21_KeyStep ==
    phase = "running" =>
        /\ Reader # rootMenu => Highlight(rootMenu') = Highlight(rootMenu)
        /\ Live(leaf) /\ Live(subMenu) /\ Live(subMenu') =>
             Highlight(subMenu') = Highlight(subMenu)
        /\ ~Live(leaf) /\ Live(subMenu) /\ Live(leaf') =>
             Highlight(subMenu') = Highlight(subMenu)

\* C21: at every instant exactly one widget's run() is blocked reading keys,
\* the innermost widget whose run() is in progress; a key changes that widget
\* only: the highlighted position and the item list of every enclosing menu
\* are as they were before the key.
C21_SingleInputOwner == []C21_OneReader /\ [][C21_KeyStep]_vars

\* a leaf widget has returned on a key while both enclosing menus highlight
\* a row other than their first
C21_KeyInsideMenus ==
    /\ phase = "running"
    /\ Live(subMenu)
    /\ subMenu.position > 0
    /\ rootMenu.position > 0
    /\ ev.ret # Running

\* the child set of a manager whose only running child is w, if any
Only(w) == IF Live(w) THEN {w.id} ELSE {}

\* C22: while the UI loop runs, the widgets registered in child sets are
\* exactly the widgets whose run() is in progress; the Application, the root
\* menu and the nested menu each have at most one registered child; and the
\* registered widgets form one chain from the Application down to the widget
\* that is reading keys: the root menu in the Application, the nested menu
\* (or else the leaf widget) in the root menu, the leaf widget in the nested
\* menu.
C22_LiveWidgetChain ==
    phase = "running" =>
        /\ appChildren = Only(rootMenu)
        /\ Live(rootMenu)
        /\ rootMenu.children = IF Live(subMenu) THEN {subMenu.id} ELSE Only(leaf)
        /\ subMenu.children = IF Live(subMenu) THEN Only(leaf) ELSE {}
        /\ Reader.id \in appChildren \cup rootMenu.children \cup subMenu.children
        /\ Blocked(Reader)

\* the chain at its longest: a Confirm runs in the nested menu
C22_ThreeDeep ==
    /\ phase = "running"
    /\ Live(subMenu)
    /\ leaf.kind = "Confirm"
    /\ subMenu.children = {leaf.id}
    /\ rootMenu.children = {subMenu.id}

\* the session M with the highlight of the menu named which on row p
Highlighting(M, which, p) ==
    IF which = "root" THEN [M EXCEPT !.root.position = p]
    ELSE IF Live(M.sub) THEN [M EXCEPT !.sub.position = p]
    ELSE M

ReadingMenu == IF Live(subMenu) THEN "sub" ELSE "root"

\* C23: in every menu of the program, of R rows, the digit key k with
\* 1 <= k <= R has the outcome of Enter while row k-1 is highlighted: the
\* same callback is called with the same arguments and runs to the same
\* point, or the loop is left when k = R; and the digit leaves the
\* highlighted position where it was.
C23_DigitAccelerator ==
    phase = "running" /\ ~Live(leaf) =>
        \A k \in 1..Len(Reader.items), fail \in BOOLEAN :
            LET byDigit == MenuPress(Machine, ReadingMenu, DigitsOf(k)[1], fail)
                byEnter == MenuPress(Highlighting(Machine, ReadingMenu, k - 1),
                                     ReadingMenu, "NL", fail)
            IN  /\ Len(Reader.items) <= 9
                /\ byDigit = Highlighting(byEnter, ReadingMenu, Reader.position)
                /\ byDigit.root.position = rootMenu.position
                /\ ReadingMenu = "sub" /\ Live(byDigit.sub) =>
                     byDigit.sub.position = subMenu.position

\* the fourth row of the root menu has been activated while the first row
\* is highlighted: by its digit
C23_FourthRowByDigit ==
    /\ phase = "running"
    /\ ev.cb = "search_win"
    /\ rootMenu.position = 0
    /\ Live(leaf)

C24_InRange ==
    phase \in {"menu", "returned"} =>
        rootMenu.position >= 0 /\ rootMenu.position <= Len(rootMenu.items) - 1

C24_NoWrap ==
    phase = "menu" =>
        /\ ev'.key = "KEY_UP" /\ rootMenu.position = 0 =>
             rootMenu'.position = 0
        /\ ev'.key = "KEY_DOWN"
              /\ rootMenu.position = Len(rootMenu.items) - 1 =>
             rootMenu'.position = rootMenu.position
        /\ ev'.key \in Digits \/ ev'.cb # "" =>
             rootMenu'.position = rootMenu.position

\* C24: whatever Up and Down keys, digit accelerators and returns from
\* callbacks a Menu goes through, its highlighted position stays within
\* 0 .. rowCount-1; Up on row 0 and Down on the last row leave it where it
\* is: the highlight does not wrap around.
C24_MenuHighlight == []C24_InRange /\ [][C24_NoWrap]_vars

\* Down has been pressed and the last of four rows is highlighted
C24_DownOnLastRow ==
    /\ phase = "menu"
    /\ ev.key = "KEY_DOWN"
    /\ Len(rootMenu.items) = 4
    /\ rootMenu.position = 3

Min(a, b) == IF a < b THEN a ELSE b

Max(a, b) == IF a > b THEN a ELSE b

\* the highlighted index after key, from index p of L entries
Stepped(key, p, L) ==
    CASE key = "KEY_DOWN"  -> Min(p + 1, L - 1)
      [] key = "KEY_UP"    -> Max(p - 1, 0)
      [] key = "KEY_NPAGE" -> Min(p + 15, L - 1)
      [] key = "KEY_PPAGE" -> Max(p - 15, 0)
      [] OTHER             -> p

C25_Step ==
    leaf.kind = "Select" /\ phase = "widget" /\ phase' = "widget" =>
        leaf'.position = Stepped(ev'.key, leaf.position, Len(leaf.items))

\* C25: from the highlighted index p of a Select with L entries, the return
\* entry counted, Down gives min(p+1, L-1), Up gives max(p-1, 0), PageDown
\* gives min(p+15, L-1), PageUp gives max(p-15, 0), and every other key
\* that does not end the run loop leaves p unchanged.
C25_SelectorSteps == [][C25_Step]_vars

\* PageDown has moved the highlight by a whole page of 15, short of the end
C25_WholePage ==
    /\ leaf.kind = "Select"
    /\ phase = "widget"
    /\ ev.key = "KEY_NPAGE"
    /\ Len(leaf.items) = 18
    /\ leaf.position = 16

\* the sample texts of the round trip, the units also in other letter cases
RoundTripTexts ==
    { <<"0">>, <<"5", "0", "0">>, <<"1", "0", "K", "B">>,
      <<"2", ".", "5", "M", "B">>, <<"1", "G", "B">>,
      <<"1", "0", "k", "b">>, <<"2", ".", "5", "m", "B">>, <<"1", "G", "b">> }

\* the magnitude of the text to two decimals with its unit, an absent unit
\* meaning bytes
TwoDecimals(s) ==
    CASE s = <<"0">> -> <<"0", ".", "0", "0", " ", "b", "y", "t", "e", "s">>
      [] s = <<"5", "0", "0">> ->
           <<"5", "0", "0", ".", "0", "0", " ", "b", "y", "t", "e", "s">>
      [] s \in {<<"1", "0", "K", "B">>, <<"1", "0", "k", "b">>} ->
           <<"1", "0", ".", "0", "0", " ", "K", "B">>
      [] s \in {<<"2", ".", "5", "M", "B">>, <<"2", ".", "5", "m", "B">>} ->
           <<"2", ".", "5", "0", " ", "M", "B">>
      [] s \in {<<"1", "G", "B">>, <<"1", "G", "b">>} ->
           <<"1", ".", "0", "0", " ", "G", "B">>

\* C26 as stated: for every s of "0", "500", "10KB", "2.5MB", "1GB",
\* format_quota(parse_quota(s)) shows the magnitude of s to two decimals
\* with the matching 1000-based unit, the suffix matched in any letter case
\* and an absent suffix meaning bytes.
C26_RoundTripOfAll ==
    keylog \in RoundTripTexts =>
        /\ phase # "ValueError"
        /\ phase = "shown" => ev.shown = TwoDecimals(keylog)

\* C26, amended: for every s of "500", "10KB", "2.5MB", "1GB",
\* format_quota(parse_quota(s)) shows the magnitude of s to two decimals
\* with the matching 1000-based unit ("500.00 bytes", "10.00 KB", "2.50 MB",
\* "1.00 GB"), the suffix matched in any letter case and an absent suffix
\* meaning bytes; for "0" it shows "unlimited".
C26_RoundTrip ==
    keylog \in RoundTripTexts =>
        /\ phase # "ValueError"
        /\ phase = "shown" =>
             ev.shown = IF keylog = <<"0">>
                        THEN <<"u", "n", "l", "i", "m", "i", "t", "e", "d">>
                        ELSE TwoDecimals(keylog)

\* "2.5mB" has been parsed and shown
C26_MixedCaseShown ==
    /\ phase = "shown"
    /\ keylog = <<"2", ".", "5", "m", "B">>
    /\ ev.result.quota = Decimal(2500000, 0)
    /\ ev.shown = <<"2", ".", "5", "0", " ", "M", "B">>

\* "0" has been parsed and shown
C26_ZeroShown ==
    /\ phase = "shown"
    /\ keylog = <<"0">>
    /\ ev.shown = <<"u", "n", "l", "i", "m", "i", "t", "e", "d">>

\* the numeric part of a quota text and the text after it, blanks skipped
NumberPart(s) == SubSeq(s, 1, PrefixLen(s, DecDigits \cup {".", ","}))

AfterNumber(s) ==
    LET rest == Drop(s, Len(NumberPart(s)))
    IN  Drop(rest, PrefixLen(rest, {" "}))

\* a decimal number: digits with at most one point
WellFormedNumber(t) ==
    /\ \E i \in 1..Len(t) : t[i] \in DecDigits
    /\ \A i \in 1..Len(t) : t[i] # ","
    /\ Cardinality({i \in 1..Len(t) : t[i] = "."}) <= 1

\* kb, mb and gb in any letter case
UnitTexts == {<<a, b>> : a \in {"k", "K", "m", "M", "g", "G"}, b \in {"b", "B"}}

Rejected == phase = "ValueError" /\ ev.result.err # ""

\* C27: parse_quota fails with a descriptive error for every text whose
\* numeric part is missing or malformed ("abc", "") and for every text in
\* which what follows the number is not exactly kb, mb or gb in any letter
\* case ("10XB"); parse_quota("0") is 0, which format_quota shows as
\* "unlimited".
C27_ParseErrors ==
    /\ phase # "quota text" /\ ~WellFormedNumber(NumberPart(keylog)) => Rejected
    /\ phase # "quota text" /\ AfterNumber(keylog) # <<>>
          /\ AfterNumber(keylog) \notin UnitTexts => Rejected
    /\ phase = "shown" /\ keylog = <<"0">> =>
          /\ ev.result.quota = Decimal(0, 0)
          /\ ev.shown = <<"u", "n", "l", "i", "m", "i", "t", "e", "d">>

\* "1@" has been parsed: the amount is 1
C27_AtSignAccepted ==
    /\ phase = "parsed"
    /\ keylog = <<"1", "@">>
    /\ ev.result.quota = Decimal(1, 0)

\* the REJECT records of the file for the address
RejectsOf(bf, address) ==
    {i \in 1..Len(bf.lines) :
        IsRejectLine(bf.lines[i]) /\ bf.lines[i].addr = address}

C28_NoDuplicates ==
    \A i \in 1..Len(blockfile.lines) :
        IsRejectLine(blockfile.lines[i]) =>
            Cardinality(RejectsOf(blockfile, blockfile.lines[i].addr)) = 1

\* the step is the confirmation of a removal
Unblocking ==
    /\ phase = "running"
    /\ leaf.kind = "Confirm"
    /\ leaf.id = "Confirm Unblock"
    /\ "remove_blocked_entry" \in ev'.calls

C28_Removal ==
    Unblocking =>
        LET address == Last(wfs).loc.selected_entry
            Other(l) == ~(IsRejectLine(l) /\ l.addr = address)
        IN  /\ RejectsOf(blockfile, address) # {}
            /\ RejectsOf(blockfile', address) = {}
            /\ blockfile'.lines = SelectSeq(blockfile.lines, Other)

C28_Rebuild ==
    /\ blockfile' # blockfile =>
         /\ "postmap" \in ev'.calls
         /\ ev'.calls \cap {"add_blocked_entry", "remove_blocked_entry"} # {}
    /\ ev'.calls \cap {"add_blocked_entry", "remove_blocked_entry"} # {} =>
         /\ "postmap" \in ev'.calls
         /\ blockfile' # blockfile

\* C28: from a blocklist file in which no address has two REJECT records,
\* whatever 'Add blocked entry' and 'Remove blocked entry' workflows run, no
\* address has two REJECT records; a confirmed removal leaves no REJECT
\* record of the removed address and keeps every other line (comments,
\* blank lines, other records) unchanged and in order; and every add and
\* every remove rebuilds the lookup index.
C28_BlocklistIntegrity ==
    /\ []C28_NoDuplicates
    /\ [][C28_Removal]_vars
    /\ [][C28_Rebuild]_vars

\* an address has been added and another removed: the file holds the lines
\* it had, without the REJECT record it had and with a new one at its end
C28_AddedAndRemoved ==
    /\ phase = "running"
    /\ blockfile.lines = << [kind |-> "comment"],
                            [kind |-> "rec", addr |-> <<"1">>, act |-> "OK"],
                            [kind |-> "blank"],
                            RejectLine(<<"1">>) >>
    /\ ev.calls = {"remove_blocked_entry", "postmap"}

C29_QuitStep ==
    phase \in {"widget", "menu"} /\ ev'.key \in QuitKeys => phase' = "returned"

\* C29: in every widget (Note, Confirm, Select, SingleInput, Info, Menu) the
\* key q or Q leaves the widget's run loop: run() returns.
C29_QuitKey == [][C29_QuitStep]_vars

\* a SingleInput has read q: the character is in its buffer and its run loop
\* goes on
C29_QuitTyped ==
    /\ phase = "widget"
    /\ leaf.kind = "SingleInput"
    /\ ev.key = "q"
    /\ leaf.input_string = <<"q">>

\* a SingleInput that does not take input has read q: its run loop goes on
C29_QuitIgnored ==
    /\ phase = "widget"
    /\ leaf.kind = "SingleInput"
    /\ ev.key = "q"
    /\ ~leaf.input_active

\* the ids of the widgets whose run() is in progress, outermost first
ChainIds == [i \in 1..Len(Chain) |-> Chain[i].id]

\* C30: in a draw pass started at the Application, as the resize handler
\* starts one, each manager draws its own content before its registered
\* children: the surfaces are drawn in the order of the chain, from the
\* Application down, and the widget that reads keys is drawn last.
C30_CompositionOrder ==
    phase = "running" /\ Notified(ev) =>
        /\ ev.drawn = <<"MAINAPP">> \o ChainIds
        /\ Last(ev.drawn) = Reader.id

\* the terminal has been resized while a Confirm ran in the nested menu
C30_FourSurfaces ==
    /\ phase = "running"
    /\ Notified(ev)
    /\ leaf.kind = "Confirm"
    /\ Len(ev.drawn) = 4
    /\ ev.drawn[3] = subMenu.id

\* the nested menu has left its run loop and the root menu reads keys again
BackInParent(M) == ~Live(M.sub) /\ M.leaf = NoLeaf /\ M.end = ""

\* C31: in every menu the program builds, activating a row labelled
\* 'Return to <parent>', by Enter while it is highlighted or by its digit,
\* ends the run loop of that menu and the parent menu reads keys again; the
\* menu 'Manage Blocked Emails', which has such a row among its own items,
\* included.
C31_ReturnRows ==
    phase = "running" /\ ~Live(leaf) /\ Live(subMenu) =>
        \A k \in 1..Len(subMenu.items) :
            subMenu.items[k].label = "Return to <parent>" =>
                /\ BackInParent(MenuPress(Machine, "sub", DigitsOf(k)[1], FALSE))
                /\ BackInParent(MenuPress(Highlighting(Machine, "sub", k - 1),
                                          "sub", "NL", FALSE))

\* the fourth row of 'Manage Blocked Emails', labelled 'Return to
\* <parent>', has been activated and the menu goes on reading keys
C31_StillInBlocklistMenu ==
    /\ phase = "running"
    /\ subMenu.id = "Manage Blocked Emails"
    /\ subMenu.items[4].label = "Return to <parent>"
    /\ ev.cb = "lambda"
    /\ Reader = subMenu

\* the step before this one changed the blocklist file and made no commit:
\* the change is not part of the state as of the last commit
FileChangeUncommitted ==
    /\ ev.calls \cap {"add_blocked_entry", "remove_blocked_entry"} # {}
    /\ "commit" \notin ev.calls

\* the step discards the changes or ends the session abnormally
Discards ==
    /\ phase = "running"
    /\ \/ "rollback" \in ev'.calls
       \/ ev'.end \in {"error", "interrupt"}

C32_Restored ==
    Discards =>
        /\ dbRows' = dbCommitted
        /\ dbCommitted' = dbCommitted
        /\ FileChangeUncommitted => blockfile' # blockfile

\* C32: after a confirmed 'Discard changes' and after an abnormal end of the
\* session, what is visible outside the session is what it was at the last
\* commit, for every change made through the UI: the rows of domains, users
\* and aliases, and the records of the blocklist file; a record added or
\* removed since the last commit is not left in effect.
C32_DurabilityBoundary == [][C32_Restored]_vars

\* the session has been interrupted in the Note that follows the blocking
\* of '1': the record, written after the last commit, is in the file
C32_BlockedAtAbnormalEnd ==
    /\ phase = "exited"
    /\ ev.end = "interrupt"
    /\ leaf.kind = "Note"
    /\ leaf.id = "Entry Blocked"
    /\ RejectsOf(blockfile, <<"1">>) # {}
    /\ RejectsOf(InitialFile, <<"1">>) = {}
    /\ dbRows = dbCommitted

RECURSIVE TypedInFocus(_)
\* the characters and Backspaces among the keys that were read while the
\* input field had the focus, in order
TypedInFocus(keys) ==
    IF keys = <<>> THEN <<>>
    ELSE LET earlier == SubSeq(keys, 1, Len(keys) - 1)
             key == keys[Len(keys)]
         IN  IF InputFocused(earlier)
                /\ (isgraph(key) \/ key \in BackspaceKeys)
             THEN Append(TypedInFocus(earlier), key)
             ELSE TypedInFocus(earlier)

C33_Buffer ==
    leaf.kind = "SingleInput" =>
        /\ leaf.input_string = Replay(TypedInFocus(keylog))
        /\ phase = "returned" /\ ev.ret # None =>
             ev.ret = Str(Replay(TypedInFocus(keylog)))

C33_Frame ==
    leaf.kind = "SingleInput" /\ phase = "widget" =>
        /\ ~leaf.input_active
              /\ (isgraph(ev'.key) \/ ev'.key \in BackspaceKeys) =>
             leaf' = leaf
        /\ ev'.key \in {"KEY_UP", "KEY_DOWN"} =>
             leaf'.input_string = leaf.input_string

\* C33: while the cancel row of a SingleInput has the focus, characters and
\* Backspace leave the buffer as it is, and giving the focus to the cancel
\* row and back keeps the buffer; so the text that Enter returns is the
\* replay of the characters and Backspaces read while the input field had
\* the focus.
C33_FocusFrame == []C33_Buffer /\ [][C33_Frame]_vars

\* 'a' has been typed, the focus has gone Down and back Up, and Enter has
\* returned "a"
C33_KeptAcrossFocus ==
    /\ leaf.kind = "SingleInput"
    /\ phase = "returned"
    /\ keylog = <<"a", "KEY_DOWN", "KEY_UP", "NL">>
    /\ ev.ret = Str(<<"a">>)

\* q and Backspace have been read while the cancel row had the focus
C33_IgnoredOnCancel ==
    /\ leaf.kind = "SingleInput"
    /\ keylog = <<"a", "KEY_DOWN", "q", "BS">>
    /\ leaf.input_string = <<"a">>

\* what a resize may change of a widget is left out
Logical(w) ==
    [f \in DOMAIN w \ {"lines", "cols", "input_size", "size"} |-> w[f]]

\* a Menu run on its own is notified of a resize
MenuResized == phase = "menu" /\ ev'.key = ""

C34_OnlySizes ==
    MenuResized =>
        /\ Logical(rootMenu') = Logical(rootMenu)
        /\ UNCHANGED <<appChildren, subMenu, leaf, wfs, dbRows, dbCommitted,
                       blockfile>>
        /\ phase' = "menu"

\* C34: a resize notification changes the sizes of the surfaces and nothing
\* else: the highlighted position, the rows and the child set of the menu,
\* the widgets below it and the data are as before, and the run() it
\* interrupted goes on, to return what it would have returned without the
\* resize.
C34_ResizeKeepsState == [][C34_OnlySizes]_vars

\* the root-sized menu of nine rows, its third row highlighted, has been
\* resized to the body of a terminal of 12 lines: its draw raised
\* curses.error and its run() has ended
C34_RunEndedByResize ==
    /\ phase = "draw raised"
    /\ Len(rootMenu.items) = 9
    /\ rootMenu.position = 2
    /\ rootMenu.lines = 6

\* in the session, on terminals of 25 x 80 and 40 x 120, where every draw
\* succeeds, a resize changes sizes only
C34_KeptWhereDrawn ==
    phase = "running" /\ Notified(ev') =>
        /\ Logical(rootMenu') = Logical(rootMenu)
        /\ Logical(subMenu') = Logical(subMenu)
        /\ Logical(leaf') = Logical(leaf)
        /\ UNCHANGED <<appChildren, wfs, dbRows, dbCommitted, blockfile, phase>>

C34_KeptInSession == [][C34_KeptWhereDrawn]_vars

\* a leaf widget run on its own reads Enter: its run() returns a result and
\* the widget is no longer registered
C35_EnterStep ==
    phase = "widget" /\ ev'.key \in EnterKeys =>
        /\ phase' = "returned"
        /\ ev'.ret # Running
        /\ leaf.id \notin appChildren'

\* C35: the run() of a leaf widget returns on the first Enter it reads, in
\* whatever state the widget is; so, Enter being delivered in the end, every
\* leaf widget that reads keys returns in the end, deregistered, to the
\* workflow that called its run().
C35_LeafTerminates ==
    /\ [][C35_EnterStep]_vars
    /\ phase = "widget" ~> (phase = "returned" /\ leaf.id \notin appChildren)

\* an Info scrolled down from its first line has returned on Enter
C35_ScrolledInfoReturned ==
    /\ phase = "returned"
    /\ ev.key \in EnterKeys
    /\ leaf.kind = "Info"
    /\ leaf.pos > 0
    /\ appChildren = {}
====
